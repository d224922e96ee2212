------------------------------- MODULE Limiter -------------------------------
(***************************************************************************)
(* The sliding-window limiter of src/backend/internal/auth/limiter.go as   *)
(* operators on its state: the hits recorded for each key, oldest first,   *)
(* and the time of the last sweep.  A call is one critical section.        *)
(***************************************************************************)
EXTENDS Subsequences

CONSTANTS
    Key,        \* client addresses
    Window,     \* length of the window
    SweepEvery, \* a sweep is due when more than this has passed
    MaxHits     \* calls let through in a window

ASSUME LimiterAssumption == {Window, SweepEvery, MaxHits} \subseteq Nat \ {0}

NewLimiter(now) == [hits |-> [k \in Key |-> <<>>], lastGC |-> now]

(* The hits strictly after now - window.                                   *)
Live(s, now) == Subsequence(s, {i \in DOMAIN s : s[i] + Window > now})

(* Mutant: a sweep that looks at no key.                                  *)
SweptNever(l, now) ==
    IF now > l.lastGC + SweepEvery THEN [l EXCEPT !.lastGC = now] ELSE l

(* Once in a while every key keeps its live hits only.                     *)
Swept(l, now) ==
    IF now > l.lastGC + SweepEvery
    THEN [hits |-> [k \in Key |-> Live(l.hits[k], now)], lastGC |-> now]
    ELSE l

(* Mutant: one more call is let through.                                   *)
AllowsOneMore(l, k, now) == Len(Live(Swept(l, now).hits[k], now)) <= MaxHits

Allows(l, k, now) == Len(Live(Swept(l, now).hits[k], now)) < MaxHits

(* The limiter after a call for k: a call that is denied is not recorded.  *)
AfterCall(l, k, now) ==
    LET live == Live(Swept(l, now).hits[k], now)
    IN [Swept(l, now) EXCEPT !.hits[k] =
           IF Allows(l, k, now) THEN Append(live, now) ELSE live]
=============================================================================
