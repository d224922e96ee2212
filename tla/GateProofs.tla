------------------------------ MODULE GateProofs -----------------------------
(***************************************************************************)
(* Proofs about Gate for any hosts, owners, groups, secrets, addresses and *)
(* token life.  The relay remembers no grant, so the argument is about the *)
(* browser: every cookie is backed by a password the visitor knew, and,    *)
(* where no host is a subdomain of another, every password that was not    *)
(* superseded is still backed by the one cookie the relay will look at.    *)
(***************************************************************************)
EXTENDS Gate, FiniteSetTheorems, WellFoundedInduction, TLAPS

(* The cookie a proven password bought.                                    *)
Backs(g, c) ==
    /\ c.name = CookieName(g.entry)
    /\ c.domain = CookieDomain(g.entry)
    /\ c.token = GrantToken(g.entry, g.until)

EntriesOK ==
    /\ now \in Nat /\ unlocks \in Nat
    /\ entries \in [Host -> Offers \cup {None}]

(* Later passwords are good for longer.                                    *)
EarnedOK ==
    /\ \A g \in earned :
          /\ g.entry \in Offers
          /\ g.until \in Nat /\ now <= g.until /\ g.until <= now + TTL
          /\ g.nth \in Nat /\ g.nth < unlocks
    /\ \A f, g \in earned : g.nth < f.nth => g.until <= f.until

JarOK ==
    /\ \A c \in jar : c.born \in Nat /\ \E g \in earned : Backs(g, c)
    /\ \A c, d \in jar : c.name = d.name /\ c.domain = d.domain => c = d

(* No password is forgotten before its time.                               *)
Kept == \A g \in earned : Superseded(g) \/ \E c \in jar : Backs(g, c)

IInv == EntriesOK /\ EarnedOK /\ JarOK /\ Kept

-----------------------------------------------------------------------------
LEMMA InitIInv == Init => IInv
  BY DEF Init, IInv, EntriesOK, EarnedOK, JarOK, Kept, Superseded, None

(* Steps that touch neither the browser nor the clock.                     *)
LEMMA BrowserUntouched ==
  ASSUME IInv, EntriesOK', UNCHANGED <<now, jar, unlocks, earned>>
  PROVE  IInv'
  BY DEF IInv, EarnedOK, JarOK, Kept, Superseded, Backs, CookieName, CookieDomain,
         GrantToken, GroupToken, HostToken, Grouped

(* What Stored does to a jar of one cookie for each name and domain.       *)
LEMMA StoredJar ==
  ASSUME IInv, NEW e \in Offers, NEW exp \in Nat, now <= exp
  PROVE  LET tok == GrantToken(e, exp) IN
         \E born \in Nat :
            LET new == [name |-> CookieName(e), domain |-> CookieDomain(e),
                        token |-> tok, born |-> born]
            IN Stored(e, tok) = {c \in jar : ~(c.name = new.name /\ c.domain = new.domain)}
                                \cup {new}
<1> DEFINE same == {c \in jar : c.name = CookieName(e) /\ c.domain = CookieDomain(e)
                                /\ now <= c.token.exp}
           born == IF same = {} THEN unlocks ELSE (CHOOSE c \in same : TRUE).born
<1>1. born \in Nat
  <2>1. CASE same = {}
    BY <2>1 DEF IInv, EntriesOK
  <2>2. CASE same # {}
    <3>1. (CHOOSE c \in same : TRUE) \in same
      BY <2>2
    <3> QED
      BY <2>2, <3>1 DEF IInv, JarOK
  <2> QED
    BY <2>1, <2>2
<1>2. \A c \in jar : now <= c.token.exp
  <2> TAKE c \in jar
  <2>1. PICK g \in earned : Backs(g, c)
    BY DEF IInv, JarOK
  <2>2. c.token.exp = g.until
    BY <2>1 DEF Backs, GrantToken, GroupToken, HostToken
  <2> QED
    BY <2>2 DEF IInv, EarnedOK
<1>3. jar \ same = {c \in jar : ~(c.name = CookieName(e) /\ c.domain = CookieDomain(e))}
  BY <1>2
<1>4. Stored(e, GrantToken(e, exp)) =
        (jar \ same) \cup {[name |-> CookieName(e), domain |-> CookieDomain(e),
                             token |-> GrantToken(e, exp), born |-> born]}
  BY DEF Stored
<1> HIDE DEF same, born
<1> QED
  BY <1>1, <1>3, <1>4

(* A right password: the cookies of other names and domains stay, the old  *)
(* one of this name and domain, if any, is superseded.                     *)
LEMMA UnlockKeepsIInv ==
  ASSUME IInv, NEW h \in Host, NEW k \in Key, NEW s \in Secret, Unlock(h, k, s)
  PROVE  IInv'
<1> DEFINE e == entries[h]
           until == now + TTL
           g0 == [entry |-> e, until |-> until, nth |-> unlocks]
<1>1. /\ e \in Offers /\ until \in Nat /\ now <= until
      /\ now \in Nat /\ unlocks \in Nat /\ TTL \in Nat
  BY GateAssumption DEF Unlock, Asks, Gated, IInv, EntriesOK, None
<1>2. /\ earned' = earned \cup {g0} /\ unlocks' = unlocks + 1
      /\ now' = now /\ entries' = entries
      /\ jar' = Stored(e, GrantToken(e, until))
  BY DEF Unlock, Asks
<1>3. PICK born \in Nat :
         jar' = {c \in jar : ~(c.name = CookieName(e) /\ c.domain = CookieDomain(e))}
                \cup {[name |-> CookieName(e), domain |-> CookieDomain(e),
                       token |-> GrantToken(e, until), born |-> born]}
  BY <1>1, <1>2, StoredJar
<1> DEFINE new == [name |-> CookieName(e), domain |-> CookieDomain(e),
                   token |-> GrantToken(e, until), born |-> born]
<1> HIDE DEF e, until
<1>4. EntriesOK'
  BY <1>1, <1>2 DEF IInv, EntriesOK
<1>5. EarnedOK'
  BY <1>1, <1>2 DEF IInv, EarnedOK, until
<1>6. Backs(g0, new) /\ \A g, c : Backs(g, c)' <=> Backs(g, c)
  BY DEF Backs, CookieName, CookieDomain, GrantToken, GroupToken, HostToken, Grouped
<1>7. JarOK'
  <2>1. \A c \in jar' : c.born \in Nat /\ \E g \in earned' : Backs(g, c)
    BY <1>2, <1>3, <1>6 DEF IInv, JarOK
  <2>2. \A c, d \in jar' : c.name = d.name /\ c.domain = d.domain => c = d
    BY <1>3 DEF IInv, JarOK
  <2> QED
    BY <2>1, <2>2, <1>6 DEF JarOK
<1>8. Kept'
  <2> SUFFICES ASSUME NEW g \in earned'
               PROVE  Superseded(g)' \/ \E c \in jar' : Backs(g, c)
    BY <1>6 DEF Kept
  <2>1. CASE g = g0
    BY <2>1, <1>3, <1>6
  <2>2. CASE g \in earned
    <3>1. CASE Superseded(g)
      BY <3>1, <1>2 DEF Superseded, CookieName, CookieDomain, Grouped
    <3>2. CASE CookieName(g.entry) = CookieName(e) /\ CookieDomain(g.entry) = CookieDomain(e)
      <4>1. g0 \in earned' /\ g0.nth > g.nth
        BY <2>2, <1>1, <1>2 DEF IInv, EarnedOK
      <4> QED
        BY <4>1, <3>2 DEF Superseded, CookieName, CookieDomain, Grouped
    <3>3. CASE /\ ~Superseded(g)
               /\ ~(CookieName(g.entry) = CookieName(e) /\ CookieDomain(g.entry) = CookieDomain(e))
      <4>1. PICK c \in jar : Backs(g, c)
        BY <2>2, <3>3 DEF IInv, Kept
      <4>2. c \in jar'
        BY <4>1, <3>3, <1>3 DEF Backs
      <4> QED
        BY <4>1, <4>2
    <3> QED
      BY <3>1, <3>2, <3>3
  <2> QED
    BY <1>2, <2>1, <2>2
<1> QED
  BY <1>4, <1>5, <1>7, <1>8 DEF IInv

(* Time takes a password and the cookie it bought at the same moment.      *)
LEMMA TickKeepsIInv ==
  ASSUME IInv, Tick
  PROVE  IInv'
<1>1. /\ now \in Nat /\ now' = now + 1 /\ unlocks' = unlocks /\ entries' = entries
      /\ jar' = {c \in jar : now' <= c.token.exp}
      /\ earned' = {g \in earned : now' <= g.until}
      /\ TTL \in Nat
  BY GateAssumption DEF Tick, IInv, EntriesOK
<1>2. EntriesOK'
  BY <1>1 DEF IInv, EntriesOK
<1>3. EarnedOK'
  BY <1>1 DEF IInv, EarnedOK
<1>4. \A g, c : Backs(g, c)' <=> Backs(g, c)
  BY DEF Backs, CookieName, CookieDomain, GrantToken, GroupToken, HostToken, Grouped
<1>5. \A g, c : Backs(g, c) => c.token.exp = g.until
  BY DEF Backs, GrantToken, GroupToken, HostToken
<1>6. JarOK'
  BY <1>1, <1>4, <1>5 DEF IInv, JarOK
<1>7. Kept'
  <2> SUFFICES ASSUME NEW g \in earned'
               PROVE  Superseded(g)' \/ \E c \in jar' : Backs(g, c)
    BY <1>4 DEF Kept
  <2>1. g \in earned /\ now' <= g.until
    BY <1>1
  <2>2. CASE Superseded(g)
    <3>1. PICK f \in earned : /\ f.nth > g.nth
                              /\ CookieName(f.entry) = CookieName(g.entry)
                              /\ CookieDomain(f.entry) = CookieDomain(g.entry)
      BY <2>2 DEF Superseded
    <3>2. f \in earned'
      BY <3>1, <2>1, <1>1 DEF IInv, EarnedOK
    <3> QED
      BY <3>1, <3>2 DEF Superseded, CookieName, CookieDomain, Grouped
  <2>3. CASE \E c \in jar : Backs(g, c)
    BY <2>1, <2>3, <1>1, <1>5
  <2> QED
    BY <2>1, <2>2, <2>3 DEF IInv, Kept
<1> QED
  BY <1>2, <1>3, <1>6, <1>7 DEF IInv

LEMMA NextIInv == IInv /\ [Next]_vars => IInv'
<1> SUFFICES ASSUME IInv, [Next]_vars PROVE IInv'
  OBVIOUS
<1>1. ASSUME NEW e \in Offers, Connect(e) PROVE IInv'
  <2>1. EntriesOK'
    BY <1>1 DEF Connect, IInv, EntriesOK
  <2> QED
    BY <1>1, <2>1, BrowserUntouched DEF Connect
<1>2. ASSUME NEW h \in Host, Disconnect(h) PROVE IInv'
  <2>1. EntriesOK'
    BY <1>2 DEF Disconnect, IInv, EntriesOK
  <2> QED
    BY <1>2, <2>1, BrowserUntouched DEF Disconnect
<1>3. ASSUME NEW h \in Host, NEW k \in Key, SlowDown(h, k) PROVE IInv'
  <2>1. EntriesOK'
    BY <1>3 DEF SlowDown, Asks, IInv, EntriesOK
  <2> QED
    BY <1>3, <2>1, BrowserUntouched DEF SlowDown, Asks
<1>4. ASSUME NEW h \in Host, NEW k \in Key, NEW s \in Secret, Denied(h, k, s) PROVE IInv'
  <2>1. EntriesOK'
    BY <1>4 DEF Denied, Asks, IInv, EntriesOK
  <2> QED
    BY <1>4, <2>1, BrowserUntouched DEF Denied, Asks
<1>5. ASSUME NEW h \in Host, NEW k \in Key, NEW s \in Secret, Unlock(h, k, s) PROVE IInv'
  BY <1>5, UnlockKeepsIInv
<1>6. ASSUME Tick PROVE IInv'
  BY <1>6, TickKeepsIInv
<1>7. ASSUME Restart PROVE IInv'
  <2>1. EntriesOK'
    BY <1>7 DEF Restart, IInv, EntriesOK
  <2> QED
    BY <1>7, <2>1, BrowserUntouched DEF Restart
<1>8. ASSUME NEW h \in Host, Carries(h) PROVE IInv'
  <2>1. EntriesOK'
    BY <1>8 DEF Carries, vars, IInv, EntriesOK
  <2> QED
    BY <1>8, <2>1, BrowserUntouched DEF Carries, vars
<1>9. ASSUME UNCHANGED vars PROVE IInv'
  <2>1. EntriesOK'
    BY <1>9 DEF vars, IInv, EntriesOK
  <2> QED
    BY <1>9, <2>1, BrowserUntouched DEF vars
<1> QED
  BY <1>1, <1>2, <1>3, <1>4, <1>5, <1>6, <1>7, <1>8, <1>9 DEF Next

LEMMA Invariance == Spec => []IInv
  BY InitIInv, NextIInv, PTL DEF Spec

-----------------------------------------------------------------------------
(* A gate opens only to a cookie whose password covers it.                 *)
LEMMA IInvImpliesEarned == IInv => GrantIsEarned
<1> SUFFICES ASSUME IInv, NEW h \in Host, Gated(entries[h]), HasGrant(entries[h])
             PROVE  \E g \in earned : Covers(g, entries[h])
  BY DEF GrantIsEarned
<1> DEFINE e == entries[h]
<1>1. e \in Entry
  BY GateAssumption DEF IInv, EntriesOK, Gated, None
<1>2. PICK c \in jar : Opens(c.token, e)
  BY DEF HasGrant, Oldest, Sent
<1>3. PICK g \in earned : Backs(g, c)
  BY DEF IInv, JarOK
<1>4. g.entry \in Entry
  BY GateAssumption DEF IInv, EarnedOK
<1>5. c.token = GrantToken(g.entry, g.until)
  BY <1>3 DEF Backs
<1>6. Covers(g, e)
  BY <1>1, <1>2, <1>4, <1>5, GateAssumption
  DEF Opens, Covers, GrantToken, GroupToken, HostToken, Grouped, Entry
<1> QED
  BY <1>6

(* For every instance: a visitor is let through a gate by a cookie only    *)
(* while a password of theirs covers it.                                   *)
THEOREM GateGrantIsEarned == Spec => []GrantIsEarned
  BY Invariance, IInvImpliesEarned, PTL

(* Where no host is below another, the browser sends one cookie of a name. *)
LEMMA IInvImpliesOpen == IInv /\ Under = {} => UnlockedStaysOpen
<1> SUFFICES ASSUME IInv, Under = {}, NEW h \in Host, Gated(entries[h]),
                    NEW g \in earned, Covers(g, entries[h]), ~Superseded(g)
             PROVE  HasGrant(entries[h])
  BY DEF UnlockedStaysOpen
<1> DEFINE e == entries[h]
<1>1. e \in Entry /\ g.entry \in Entry
  BY GateAssumption DEF IInv, EntriesOK, EarnedOK, Gated, None
<1>2. PICK c \in jar : Backs(g, c)
  BY DEF IInv, Kept
<1>3. CookieName(e) = CookieName(g.entry) /\ CookieDomain(e) = CookieDomain(g.entry)
  BY DEF Covers, CookieName, CookieDomain, Grouped
<1>4. c \in Sent(CookieName(e), e.host) /\ Opens(c.token, e)
  BY <1>2, <1>3 DEF Backs, Sent, Opens, Covers, DomainMatches, CookieDomain, GrantToken,
     GroupToken, HostToken, Grouped
<1>5. ASSUME NEW d \in Sent(CookieName(e), e.host) PROVE d = c
  <2>1. d \in jar /\ d.name = CookieName(e) /\ d.domain \in {Apex, e.host}
    BY DEF Sent, DomainMatches
  <2>2. PICK f \in earned : Backs(f, d)
    BY <2>1 DEF IInv, JarOK
  <2>3. f.entry \in Entry
    BY GateAssumption DEF IInv, EarnedOK
  <2>4. CookieDomain(f.entry) = CookieDomain(e)
    BY <1>1, <2>1, <2>2, <2>3, GateAssumption
    DEF Backs, CookieName, CookieDomain, Grouped, Entry
  <2> QED
    BY <1>2, <1>3, <2>1, <2>2, <2>4 DEF Backs, IInv, JarOK
<1>6. c \in Oldest(Sent(CookieName(e), e.host))
  BY <1>4, <1>5 DEF Oldest, IInv, JarOK
<1> QED
  BY <1>4, <1>6 DEF HasGrant

(* For every instance without nested hosts: who unlocked a gate is not     *)
(* asked again before the token expires.                                   *)
THEOREM GateUnlockedStaysOpen ==
  ASSUME Under = {}
  PROVE  Spec => []UnlockedStaysOpen
<1>1. IInv => UnlockedStaysOpen
  BY IInvImpliesOpen
<1> QED
  BY <1>1, Invariance, PTL

-----------------------------------------------------------------------------
(* The limiter.  Hits are recorded in the order of time, so what a call    *)
(* looks at is the end of the list.                                        *)

Ascending(s) == \A i, j \in DOMAIN s : i < j => s[i] <= s[j]

(* The first m hits of s are over at time t, and no other is.              *)
OverAt(s, m, t) ==
    /\ m \in 0..Len(s)
    /\ \A i \in 1..m : s[i] + Window <= t
    /\ \A i \in m+1..Len(s) : s[i] + Window > t

(* The n-th smallest number of an interval.                                *)
LEMMA NthOfInterval ==
  ASSUME NEW a \in Nat, NEW b \in Nat, NEW n \in 1..Cardinality(a+1..b)
  PROVE  Nth(a+1..b, n) = a + n
<1> DEFINE K == a+1..b
<1>1. \A i \in K : Cardinality({j \in K : j <= i}) = i - a
  <2> TAKE i \in K
  <2>1. {j \in K : j <= i} = a+1..i
    OBVIOUS
  <2>2. Cardinality(a+1..i) = i - a
    BY FS_Interval
  <2> QED
    BY <2>1, <2>2
<1>2. Cardinality(K) = IF a + 1 > b THEN 0 ELSE b - a
  BY FS_Interval
<1>3. a + n \in K
  BY <1>2
<1>4. \A i \in K : Cardinality({j \in K : j <= i}) = n <=> i = a + n
  <2> TAKE i \in K
  <2>1. i \in Int /\ n \in Int
    BY <1>2
  <2>2. Cardinality({j \in K : j <= i}) = i - a
    BY <1>1
  <2> HIDE DEF K
  <2> QED
    BY <2>1, <2>2
<1> HIDE DEF K
<1> QED
  BY <1>3, <1>4 DEF Nth, K

LEMMA LiveIsSuffix ==
  ASSUME NEW s \in Seq(Nat), NEW t \in Nat, NEW m, OverAt(s, m, t)
  PROVE  Live(s, t) = SubSeq(s, m + 1, Len(s))
<1> DEFINE K == {i \in DOMAIN s : s[i] + Window > t}
<1>1. m \in Nat /\ Len(s) \in Nat /\ m <= Len(s)
  BY DEF OverAt
<1>2. K = m+1..Len(s)
  BY LimiterAssumption DEF OverAt
<1>3. Cardinality(K) = Len(s) - m
  <2>1. m + 1 \in Int /\ Len(s) \in Int
    BY <1>1
  <2>2. Cardinality(m+1..Len(s)) = IF m + 1 > Len(s) THEN 0 ELSE Len(s) - (m + 1) + 1
    BY <2>1, FS_Interval, Zenon
  <2> HIDE DEF K
  <2> QED
    BY <1>1, <1>2, <2>2
<1>4. \A n \in 1..Cardinality(K) : Nth(K, n) = m + n
  BY <1>1, <1>2, NthOfInterval
<1>5. Live(s, t) = [n \in 1..Len(s) - m |-> s[m + n]]
  <2> HIDE DEF K
  <2>1. Live(s, t) = [n \in 1..Cardinality(K) |-> s[Nth(K, n)]]
    BY DEF Live, Subsequence, K
  <2> QED
    BY <2>1, <1>3, <1>4
<1> QED
  BY <1>1, <1>5

(* A list in order has such a place.                                       *)
LEMMA OverAtExists ==
  ASSUME NEW s \in Seq(Nat), Ascending(s), NEW t \in Nat
  PROVE  \E m \in Nat : OverAt(s, m, t)
<1> DEFINE M == {m \in 0..Len(s) : \A i \in m+1..Len(s) : s[i] + Window > t}
<1>1. Len(s) \in M
  OBVIOUS
<1>2. M \subseteq Nat /\ M # {}
  BY <1>1
<1>3. PICK m \in M : \A i \in M : ~(<<i, m>> \in OpToRel(<, Nat))
  BY <1>2, NatLessThanWellFounded, WFMin
<1>4. \A i \in M : ~(i < m)
  <2> HIDE DEF M
  <2> QED
    BY <1>2, <1>3 DEF OpToRel
<1>5. m > 0 => s[m] + Window <= t
  <2> SUFFICES ASSUME m > 0 PROVE s[m] + Window <= t
    OBVIOUS
  <2>1. m - 1 \in 0..Len(s) /\ m - 1 \notin M
    BY <1>4
  <2>2. PICK i \in m..Len(s) : ~(s[i] + Window > t)
    BY <2>1
  <2> QED
    BY <2>2, LimiterAssumption
<1>6. \A i \in 1..m : s[i] + Window <= t
  <2> SUFFICES ASSUME NEW i \in 1..m PROVE s[i] + Window <= t
    OBVIOUS
  <2>1. m \in 1..Len(s) /\ i \in 1..Len(s) /\ (i < m \/ i = m)
    OBVIOUS
  <2>2. s[i] <= s[m]
    BY <2>1 DEF Ascending
  <2>3. s[i] \in Nat /\ s[m] \in Nat
    BY <2>1
  <2>4. Window \in Nat /\ m > 0
    BY <2>1, LimiterAssumption
  <2>5. s[m] + Window <= t
    BY <1>5, <2>4
  <2> HIDE DEF M
  <2> QED
    BY <2>2, <2>3, <2>4, <2>5
<1> QED
  BY <1>2, <1>6 DEF OverAt

(* What is left of a list in order: a list in order, with the same end.    *)
LEMMA LiveProperties ==
  ASSUME NEW s \in Seq(Nat), Ascending(s), NEW t \in Nat
  PROVE  /\ Live(s, t) \in Seq(Nat)
         /\ Len(Live(s, t)) <= Len(s)
         /\ Ascending(Live(s, t))
         /\ \A i \in DOMAIN Live(s, t) : /\ Live(s, t)[i] + Window > t
                                         /\ \E j \in DOMAIN s : Live(s, t)[i] = s[j]
         /\ Live(s, t) # <<>> => Live(s, t)[Len(Live(s, t))] = s[Len(s)]
<1>1. PICK m \in Nat : OverAt(s, m, t)
  BY OverAtExists
<1> DEFINE l == Live(s, t)
<1>2. l = SubSeq(s, m + 1, Len(s))
  BY <1>1, LiveIsSuffix
<1>3. m \in 0..Len(s) /\ Len(s) \in Nat
  BY <1>1 DEF OverAt
<1> HIDE DEF l
<1>4. l \in Seq(Nat) /\ Len(l) = Len(s) - m /\ \A i \in 1..Len(l) : l[i] = s[m + i]
  BY <1>2, <1>3
<1>5. Ascending(l)
  <2> SUFFICES ASSUME NEW i \in DOMAIN l, NEW j \in DOMAIN l, i < j
               PROVE  l[i] <= l[j]
    BY DEF Ascending
  <2> i \in 1..Len(s) - m /\ j \in 1..Len(s) - m
    BY <1>4
  <2>0. DOMAIN s = 1..Len(s) /\ i \in Nat /\ j \in Nat
    OBVIOUS
  <2>1. m + i \in DOMAIN s /\ m + j \in DOMAIN s /\ m + i < m + j
    BY <1>3, <2>0
  <2>2. s[m + i] <= s[m + j]
    BY <2>1 DEF Ascending
  <2>3. l[i] = s[m + i] /\ l[j] = s[m + j]
    BY <1>4
  <2> QED
    BY <2>2, <2>3
<1>6. \A i \in DOMAIN l : l[i] + Window > t /\ \E j \in DOMAIN s : l[i] = s[j]
  <2> SUFFICES ASSUME NEW i \in 1..Len(l)
               PROVE  l[i] + Window > t /\ \E j \in DOMAIN s : l[i] = s[j]
    BY <1>4
  <2>1. m + i \in m+1..Len(s) /\ m + i \in DOMAIN s
    BY <1>3, <1>4
  <2> QED
    BY <2>1, <1>1, <1>4 DEF OverAt
<1>7. l # <<>> => l[Len(l)] = s[Len(s)]
  BY <1>3, <1>4
<1> QED
  BY <1>3, <1>4, <1>5, <1>6, <1>7 DEF l

(* A second look, at the same time or later, finds what one would.         *)
LEMMA LiveOfLive ==
  ASSUME NEW s \in Seq(Nat), Ascending(s), NEW t \in Nat, NEW u \in Nat, t <= u
  PROVE  Live(Live(s, t), u) = Live(s, u)
<1> DEFINE l == Live(s, t)
<1>1. PICK m \in Nat : OverAt(s, m, t)
  BY OverAtExists
<1>2. PICK n \in Nat : OverAt(s, n, u)
  BY OverAtExists
<1>3. m <= n /\ n <= Len(s)
  BY <1>1, <1>2, LimiterAssumption DEF OverAt
<1>4. l = SubSeq(s, m + 1, Len(s))
  BY <1>1, LiveIsSuffix
<1>5. l \in Seq(Nat) /\ Len(l) = Len(s) - m
  BY <1>1, <1>4 DEF OverAt
<1>6. OverAt(l, n - m, u)
  BY <1>1, <1>2, <1>3, <1>4, <1>5 DEF OverAt
<1> HIDE DEF l
<1>7. Live(l, u) = SubSeq(l, n - m + 1, Len(l))
  BY <1>5, <1>6, LiveIsSuffix
<1>8. SubSeq(l, n - m + 1, Len(l)) = SubSeq(s, n + 1, Len(s))
  BY <1>3, <1>4, <1>5
<1> QED
  BY <1>2, <1>7, <1>8, LiveIsSuffix DEF l

(* All of a list that is live, and what is recorded at the end of it.      *)
LEMMA LiveOfAppend ==
  ASSUME NEW s \in Seq(Nat), NEW t \in Nat, \A i \in DOMAIN s : s[i] + Window > t
  PROVE  Live(Append(s, t), t) = Append(s, t)
<1> DEFINE l == Append(s, t)
<1>1. l \in Seq(Nat) /\ \A i \in DOMAIN l : l[i] + Window > t
  BY LimiterAssumption
<1> HIDE DEF l
<1>2. OverAt(l, 0, t)
  BY <1>1 DEF OverAt
<1>3. Live(l, t) = SubSeq(l, 0 + 1, Len(l))
  BY <1>1, <1>2, LiveIsSuffix
<1> QED
  BY <1>1, <1>3 DEF l

LEMMA LiveOfNone ==
  ASSUME NEW t \in Nat
  PROVE  Live(<<>>, t) = <<>>
<1>1. <<>> \in Seq(Nat) /\ OverAt(<<>>, 0, t)
  BY DEF OverAt
<1>2. Live(<<>>, t) = SubSeq(<<>>, 0 + 1, Len(<<>>))
  BY <1>1, LiveIsSuffix, Zenon
<1> QED
  BY <1>2

(* The hits of an address: in order, none in the future, and the live ones *)
(* are the posted passwords the relay looked at.                           *)
HitsOK(s, t, looked) ==
    /\ s \in Seq(Nat)
    /\ Ascending(s)
    /\ \A i \in DOMAIN s : s[i] <= t
    /\ Live(s, t) = looked
    /\ Len(looked) <= MaxHits

Recent(s, t) == s # <<>> => s[Len(s)] + Window > t

LimiterOK(l, t, looked) ==
    /\ l \in [hits : [Key -> Seq(Nat)], lastGC : Nat]
    /\ l.lastGC <= t
    /\ \A k \in Key : HitsOK(l.hits[k], t, looked[k])
    /\ \A k \in Key : Recent(l.hits[k], l.lastGC)

LimiterInv ==
    /\ now \in Nat
    /\ posted \in [Key -> Seq(Nat)]
    /\ LimiterOK(limiter, now, posted)

(* The live part of good hits is good, and looks no different.             *)
LEMMA LiveHitsOK ==
  ASSUME NEW s, NEW t \in Nat, NEW looked, HitsOK(s, t, looked)
  PROVE  /\ HitsOK(Live(s, t), t, looked)
         /\ \A g \in Nat : Recent(s, g) => Recent(Live(s, t), g)
         /\ Recent(Live(s, t), t)
<1> DEFINE l == Live(s, t)
<1>1. s \in Seq(Nat) /\ Ascending(s)
  BY DEF HitsOK
<1>2. /\ l \in Seq(Nat) /\ Ascending(l)
      /\ \A i \in DOMAIN l : l[i] + Window > t /\ \E j \in DOMAIN s : l[i] = s[j]
      /\ l # <<>> => l[Len(l)] = s[Len(s)]
  BY <1>1, LiveProperties
<1>3. Live(l, t) = l
  BY <1>1, LiveOfLive
<1>4. l = looked
  BY DEF HitsOK
<1>5. l # <<>> => s # <<>> /\ Len(l) \in DOMAIN l
  <2>1. s = <<>> => l = <<>>
    BY LiveOfNone
  <2> QED
    BY <2>1, <1>2
<1> HIDE DEF l
<1>6. \A i \in DOMAIN l : l[i] <= t
  BY <1>2 DEF HitsOK
<1>7. HitsOK(l, t, looked)
  BY <1>2, <1>3, <1>4, <1>6 DEF HitsOK
<1>8. \A g \in Nat : Recent(s, g) => Recent(l, g)
  BY <1>2, <1>5 DEF Recent
<1>9. Recent(l, t)
  BY <1>2, <1>5 DEF Recent
<1> QED
  BY <1>7, <1>8, <1>9 DEF l

(* A posted password the relay looks at is recorded in both lists.         *)
LEMMA RecordedHitsOK ==
  ASSUME NEW s, NEW t \in Nat, NEW looked, HitsOK(s, t, looked), Len(looked) < MaxHits
  PROVE  /\ HitsOK(Append(Live(s, t), t), t, Append(looked, t))
         /\ \A g \in Nat : g <= t => Recent(Append(Live(s, t), t), g)
<1> DEFINE l == Live(s, t)
           r == Append(l, t)
<1>1. s \in Seq(Nat) /\ Ascending(s) /\ MaxHits \in Nat
  BY LimiterAssumption DEF HitsOK
<1>2. /\ l \in Seq(Nat) /\ Ascending(l) /\ l = looked
      /\ \A i \in DOMAIN l : l[i] + Window > t
  BY <1>1, LiveProperties DEF HitsOK
<1>3. \A i \in DOMAIN l : l[i] <= t
  BY LiveHitsOK DEF HitsOK
<1> HIDE DEF l
<1>4. Live(r, t) = r
  BY <1>2, LiveOfAppend
<1>5. /\ r \in Seq(Nat) /\ Len(r) = Len(l) + 1 /\ Len(l) \in Nat
      /\ r[Len(r)] = t /\ \A i \in 1..Len(l) : r[i] = l[i]
  BY <1>2
<1> HIDE DEF r
<1>6. \A i \in DOMAIN r : i \in DOMAIN l \/ i = Len(l) + 1
  BY <1>2, <1>5
<1>7. \A i \in DOMAIN r : r[i] <= t
  BY <1>3, <1>5, <1>6
<1>8. Ascending(r)
  <2> SUFFICES ASSUME NEW i \in DOMAIN r, NEW j \in DOMAIN r, i < j
               PROVE  r[i] <= r[j]
    BY DEF Ascending
  <2>0. DOMAIN l = 1..Len(l) /\ DOMAIN r = 1..Len(l) + 1
    BY <1>2, <1>5
  <2>1. CASE j \in DOMAIN l
    <3>1. i \in DOMAIN l /\ r[i] = l[i] /\ r[j] = l[j]
      BY <2>0, <2>1, <1>5
    <3> QED
      BY <2>1, <3>1, <1>2 DEF Ascending
  <2>2. CASE j = Len(l) + 1
    BY <2>2, <1>5, <1>7
  <2> QED
    BY <2>1, <2>2, <1>6
<1>9. HitsOK(r, t, Append(looked, t))
  <2>1. r = Append(looked, t)
    BY <1>2 DEF r
  <2>2. Len(Append(looked, t)) <= MaxHits
    BY <1>1, <1>2
  <2> QED
    BY <1>4, <1>5, <1>7, <1>8, <2>1, <2>2 DEF HitsOK
<1>10. \A g \in Nat : g <= t => Recent(r, g)
  BY <1>5, LimiterAssumption DEF Recent
<1> QED
  BY <1>9, <1>10 DEF r, l

LEMMA SweptOK ==
  ASSUME NEW l, NEW t \in Nat, NEW looked, LimiterOK(l, t, looked)
  PROVE  LimiterOK(Swept(l, t), t, looked)
<1>1. CASE t > l.lastGC + SweepEvery
  <2> DEFINE w == [hits |-> [k \in Key |-> Live(l.hits[k], t)], lastGC |-> t]
  <2>1. Swept(l, t) = w
    BY <1>1 DEF Swept
  <2>2. \A k \in Key : HitsOK(w.hits[k], t, looked[k]) /\ Recent(w.hits[k], t)
    BY LiveHitsOK DEF LimiterOK
  <2>3. w \in [hits : [Key -> Seq(Nat)], lastGC : Nat]
    BY <2>2 DEF HitsOK
  <2> QED
    BY <2>1, <2>2, <2>3 DEF LimiterOK
<1>2. CASE ~(t > l.lastGC + SweepEvery)
  BY <1>2 DEF Swept
<1> QED
  BY <1>1, <1>2

(* What a call is told, and what it leaves.                                *)
LEMMA CallOK ==
  ASSUME NEW l, NEW t \in Nat, NEW looked \in [Key -> Seq(Nat)], LimiterOK(l, t, looked),
         NEW k \in Key
  PROVE  /\ Allows(l, k, t) <=> Len(looked[k]) < MaxHits
         /\ LimiterOK(AfterCall(l, k, t), t,
                      IF Allows(l, k, t) THEN [looked EXCEPT ![k] = Append(@, t)] ELSE looked)
<1> DEFINE w == Swept(l, t)
           live == Live(w.hits[k], t)
           hit == IF Allows(l, k, t) THEN Append(live, t) ELSE live
           a == [w EXCEPT !.hits[k] = hit]
           after == IF Allows(l, k, t) THEN [looked EXCEPT ![k] = Append(@, t)] ELSE looked
<1>1. LimiterOK(w, t, looked)
  BY SweptOK
<1> HIDE DEF w
<1>2. HitsOK(w.hits[k], t, looked[k]) /\ Recent(w.hits[k], w.lastGC) /\ w.lastGC \in Nat
  BY <1>1 DEF LimiterOK
<1>3. live = looked[k]
  BY <1>2 DEF HitsOK
<1>4. Allows(l, k, t) <=> Len(looked[k]) < MaxHits
  BY <1>3 DEF Allows, w
<1>5. HitsOK(hit, t, after[k]) /\ Recent(hit, w.lastGC)
  <2>1. CASE Allows(l, k, t)
    <3>1. HitsOK(Append(live, t), t, Append(looked[k], t)) /\ Recent(Append(live, t), w.lastGC)
      BY <2>1, <1>1, <1>2, <1>4, RecordedHitsOK DEF LimiterOK
    <3> QED
      BY <3>1, <2>1
  <2>2. CASE ~Allows(l, k, t)
    BY <2>2, <1>2, LiveHitsOK
  <2> QED
    BY <2>1, <2>2
<1>6. hit \in Seq(Nat)
  BY <1>5 DEF HitsOK
<1>7. AfterCall(l, k, t) = a
  BY DEF AfterCall, w
<1> HIDE DEF hit
<1>8. /\ a \in [hits : [Key -> Seq(Nat)], lastGC : Nat]
      /\ a.lastGC = w.lastGC
      /\ \A j \in Key : a.hits[j] = IF j = k THEN hit ELSE w.hits[j]
  BY <1>1, <1>6 DEF LimiterOK
<1>9. \A j \in Key : j # k => after[j] = looked[j]
  OBVIOUS
<1> HIDE DEF a, after
<1>10. LimiterOK(a, t, after)
  BY <1>1, <1>5, <1>8, <1>9 DEF LimiterOK
<1> QED
  BY <1>4, <1>7, <1>10 DEF after

-----------------------------------------------------------------------------
LEMMA NewLimiterOK ==
  ASSUME NEW t \in Nat
  PROVE  LimiterOK(NewLimiter(t), t, [k \in Key |-> <<>>])
<1>1. HitsOK(<<>>, t, <<>>)
  BY LiveOfNone, LimiterAssumption DEF HitsOK, Ascending
<1> QED
  BY <1>1 DEF LimiterOK, NewLimiter, Recent

LEMMA InitLimiterInv == Init => LimiterInv
  BY NewLimiterOK DEF Init, LimiterInv

LEMMA AsksKeepsLimiterInv ==
  ASSUME LimiterInv, NEW h \in Host, NEW k \in Key, Asks(h, k),
         posted' = IF Allows(limiter, k, now) THEN [posted EXCEPT ![k] = Append(@, now)]
                                             ELSE posted
  PROVE  LimiterInv'
<1>1. LimiterOK(limiter', now, posted')
  BY CallOK DEF LimiterInv, Asks
<1>2. now' = now
  BY DEF Asks
<1>3. posted' \in [Key -> Seq(Nat)]
  BY DEF LimiterInv
<1> QED
  BY <1>1, <1>2, <1>3 DEF LimiterInv

LEMMA TickKeepsLimiterInv ==
  ASSUME LimiterInv, Tick
  PROVE  LimiterInv'
<1>1. /\ now \in Nat /\ now' = now + 1 /\ limiter' = limiter
      /\ posted' = [k \in Key |-> Live(posted[k], now')]
  BY DEF Tick, LimiterInv
<1>2. ASSUME NEW k \in Key
      PROVE  HitsOK(limiter.hits[k], now', posted'[k])
  <2> DEFINE s == limiter.hits[k]
  <2>1. HitsOK(s, now, posted[k])
    BY DEF LimiterInv, LimiterOK
  <2>2. s \in Seq(Nat) /\ Ascending(s) /\ posted[k] = Live(s, now)
    BY <2>1 DEF HitsOK
  <2> HIDE DEF s
  <2>3. posted'[k] = Live(s, now')
    BY <1>1, <2>2, LiveOfLive
  <2>4. Len(posted'[k]) <= Len(posted[k]) /\ Len(posted'[k]) \in Nat
    <3>1. posted[k] \in Seq(Nat) /\ Ascending(posted[k])
      BY <1>1, <2>2, LiveProperties
    <3>2. posted'[k] = Live(posted[k], now')
      BY <1>1
    <3> QED
      BY <1>1, <3>1, <3>2, LiveProperties
  <2>5. Len(posted'[k]) <= MaxHits
    <3>1. Len(posted[k]) \in Nat /\ Len(posted[k]) <= MaxHits /\ MaxHits \in Nat
      BY <2>1, LimiterAssumption DEF HitsOK, LimiterInv
    <3> QED
      BY <2>4, <3>1
  <2> QED
    BY <1>1, <2>1, <2>3, <2>5 DEF HitsOK, s
<1>3. posted' \in [Key -> Seq(Nat)]
  <2> SUFFICES ASSUME NEW k \in Key PROVE posted'[k] \in Seq(Nat)
    BY <1>1
  <2>1. limiter.hits[k] \in Seq(Nat) /\ Ascending(limiter.hits[k])
    BY <1>2 DEF HitsOK
  <2> QED
    BY <1>1, <1>2, <2>1, LiveProperties DEF HitsOK
<1> QED
  BY <1>1, <1>2, <1>3 DEF LimiterInv, LimiterOK

LEMMA NextLimiterInv == LimiterInv /\ [Next]_vars => LimiterInv'
<1> SUFFICES ASSUME LimiterInv, [Next]_vars PROVE LimiterInv'
  OBVIOUS
<1>1. ASSUME NEW e \in Offers, Connect(e) PROVE LimiterInv'
  BY <1>1 DEF Connect, LimiterInv
<1>2. ASSUME NEW h \in Host, Disconnect(h) PROVE LimiterInv'
  BY <1>2 DEF Disconnect, LimiterInv
<1>3. ASSUME NEW h \in Host, NEW k \in Key, SlowDown(h, k) PROVE LimiterInv'
  BY <1>3, AsksKeepsLimiterInv DEF SlowDown
<1>4. ASSUME NEW h \in Host, NEW k \in Key, NEW s \in Secret, Denied(h, k, s)
      PROVE  LimiterInv'
  BY <1>4, AsksKeepsLimiterInv DEF Denied
<1>5. ASSUME NEW h \in Host, NEW k \in Key, NEW s \in Secret, Unlock(h, k, s)
      PROVE  LimiterInv'
  BY <1>5, AsksKeepsLimiterInv DEF Unlock
<1>6. ASSUME Tick PROVE LimiterInv'
  BY <1>6, TickKeepsLimiterInv
<1>7. ASSUME Restart PROVE LimiterInv'
  BY <1>7, NewLimiterOK DEF Restart, LimiterInv
<1>8. ASSUME NEW h \in Host, Carries(h) PROVE LimiterInv'
  BY <1>8 DEF Carries, vars, LimiterInv
<1>9. ASSUME UNCHANGED vars PROVE LimiterInv'
  BY <1>9 DEF vars, LimiterInv
<1> QED
  BY <1>1, <1>2, <1>3, <1>4, <1>5, <1>6, <1>7, <1>8, <1>9 DEF Next

(* For every window, limit and interval between sweeps: no address has     *)
(* more posted passwords looked at than the limit in any window, and       *)
(* nobody is told to slow down who has not used the window up by posting,  *)
(* however many secrets their requests carry besides.                      *)
THEOREM GatePostsLimited == Spec => []PostsLimited
<1>1. LimiterInv => PostsLimited
  BY CallOK DEF LimiterInv, LimiterOK, HitsOK, PostsLimited
<1> QED
  BY <1>1, InitLimiterInv, NextLimiterInv, PTL DEF Spec

(* For every instance: a sweep leaves no abandoned address behind.         *)
THEOREM GateAbandonedAreSwept == Spec => []AbandonedAreSwept
<1>1. LimiterInv => AbandonedAreSwept
  BY DEF LimiterInv, LimiterOK, Recent, AbandonedAreSwept
<1> QED
  BY <1>1, InitLimiterInv, NextLimiterInv, PTL DEF Spec
=============================================================================
