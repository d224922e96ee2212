-------------------------------- MODULE Gate ---------------------------------
(***************************************************************************)
(* The password gate of protected previews (serveGate and                  *)
(* visitorCredential of src/backend/main.go, the gate tokens of            *)
(* src/backend/internal/auth/sessions.go) and one visitor's browser.  The  *)
(* relay keeps no record of a grant: a correct password buys a signed      *)
(* token in a cookie, and the token alone says what it opens.  A grouped   *)
(* token opens every host of one owner's group with one secret, a host     *)
(* token one host.  Routes come and go with other owners, groups and       *)
(* secrets while the visitor's cookies stay.  A visitor may also present a *)
(* secret with each request, which buys no token and which no limiter      *)
(* counts.                                                                 *)
(***************************************************************************)
EXTENDS Limiter

CONSTANTS
    Host, NoHost, User, NoUser, Group, NoGroup, Secret, NoSecret,
    Apex,           \* the relay's domain, above every host
    Under,          \* pairs <<h, d>>: host h is a subdomain of host d
    Offers,         \* the entries tunnels may register
    SingleUser,     \* the relay's mode
    TTL,            \* life of a token
    MaxTime,        \* bound on the clock
    MaxUnlocks      \* bound on passwords accepted

Entry == [host : Host, user : User, group : Group \cup {NoGroup},
          secret : Secret \cup {NoSecret}]
None == [host |-> NoHost, user |-> NoUser, group |-> NoGroup, secret |-> NoSecret]

ASSUME GateAssumption ==
    /\ Offers \subseteq Entry
    /\ Under \subseteq Host \X Host
    /\ SingleUser \in BOOLEAN
    /\ {TTL, MaxTime, MaxUnlocks} \subseteq Nat
    /\ NoHost \notin Host /\ Apex \notin Host /\ NoUser \notin User
    /\ NoGroup \notin Group /\ NoSecret \notin Secret

VARIABLES
    now,
    entries,    \* [Host -> the entry that owns the host, or None]
    limiter,    \* gateLimiter
    jar,        \* the browser's gate cookies
    unlocks,    \* number of passwords accepted, which dates the cookies
    earned,     \* history: what the visitor proved to know, and until when
    posted      \* history: [Key -> times at which the relay looked at a
                \* password posted from it, in the window that ends now]

vars == <<now, entries, limiter, jar, unlocks, earned, posted>>

-----------------------------------------------------------------------------
(* Tokens and cookies.                                                     *)

Gated(e) == e.secret # NoSecret

Grouped(e) == ~SingleUser /\ e.group # NoGroup

(* IssueGate, IssueGateGroup: exp is the last second a token is good for.  *)
HostToken(e, exp) ==
    [host |-> e.host, user |-> NoUser, group |-> NoGroup, secret |-> NoSecret, exp |-> exp]

GroupToken(e, exp) ==
    [host |-> NoHost, user |-> e.user, group |-> e.group, secret |-> e.secret, exp |-> exp]

GrantToken(e, exp) == IF Grouped(e) THEN GroupToken(e, exp) ELSE HostToken(e, exp)

(* Mutant: every grouped grant has the cookie of host grants.              *)
OneCookieName(e) == [user |-> NoUser, group |-> NoGroup]

(* GateCookie, or the name GateGroupCookieName derives.                    *)
CookieName(e) ==
    IF Grouped(e) THEN [user |-> e.user, group |-> e.group]
                  ELSE [user |-> NoUser, group |-> NoGroup]

CookieDomain(e) == IF Grouped(e) THEN Apex ELSE e.host

DomainMatches(d, h) == d \in {Apex, h} \/ <<h, d>> \in Under

(* Mutant: a grouped grant is not bound to the secret.                     *)
OpensAnySecret(tok, e) ==
    /\ now <= tok.exp
    /\ IF Grouped(e) THEN tok.user = e.user /\ tok.group = e.group
                     ELSE tok.host = e.host

(* VerifyGate and VerifyGateGroup.                                         *)
Opens(tok, e) ==
    /\ now <= tok.exp
    /\ IF Grouped(e)
       THEN /\ tok.user = e.user
            /\ tok.group = e.group
            /\ tok.secret = e.secret
       ELSE tok.host = e.host

(* The cookies of a name the browser sends to a host, and the one the      *)
(* relay looks at: the first in the header, which is the oldest.           *)
Sent(name, h) ==
    {c \in jar : c.name = name /\ DomainMatches(c.domain, h) /\ now <= c.token.exp}

Oldest(cookies) == {c \in cookies : \A d \in cookies : c.born <= d.born}

(* visitorCredential, of a request that carries no secret of its own.      *)
HasGrant(e) == \E c \in Oldest(Sent(CookieName(e), e.host)) : Opens(c.token, e)

(* A cookie of the same name and domain is replaced, and keeps its place.  *)
Stored(e, tok) ==
    LET same == {c \in jar : c.name = CookieName(e) /\ c.domain = CookieDomain(e)
                             /\ now <= c.token.exp}
        born == IF same = {} THEN unlocks ELSE (CHOOSE c \in same : TRUE).born
    IN (jar \ same) \cup
       {[name |-> CookieName(e), domain |-> CookieDomain(e), token |-> tok, born |-> born]}

-----------------------------------------------------------------------------
Init ==
    /\ now = 0
    /\ entries = [h \in Host |-> None]
    /\ limiter = NewLimiter(0)
    /\ jar = {} /\ unlocks = 0
    /\ earned = {}
    /\ posted = [k \in Key |-> <<>>]

(* Tunnels come and go: handleWSUpgrade.                                   *)
Connect(e) ==
    /\ entries[e.host] = None
    /\ entries' = [entries EXCEPT ![e.host] = e]
    /\ UNCHANGED <<now, limiter, jar, unlocks, earned, posted>>

Disconnect(h) ==
    /\ entries[h] # None
    /\ entries' = [entries EXCEPT ![h] = None]
    /\ UNCHANGED <<now, limiter, jar, unlocks, earned, posted>>

(* A request to a gated host carries a secret, by HTTP Basic or in the     *)
(* query: visitorCredential looks at it, whatever the limiter holds and    *)
(* without telling it, and however many there were before.  A right one is *)
(* let through to the app and is given no token; after a wrong one the     *)
(* visitor is shown the password page or, with a post, comes to Asks.  The *)
(* relay remembers nothing of either.                                      *)
Carries(h) ==
    /\ Gated(entries[h])
    /\ UNCHANGED vars

(* A password is posted to a gated host by a visitor without a grant and   *)
(* without a right secret in the request, from address k: of all that      *)
(* presents a secret this alone asks the limiter.                          *)
Asks(h, k) ==
    /\ Gated(entries[h])
    /\ ~HasGrant(entries[h])
    /\ limiter' = AfterCall(limiter, k, now)
    /\ UNCHANGED <<now, entries>>

SlowDown(h, k) ==
    /\ Asks(h, k)
    /\ ~Allows(limiter, k, now)
    /\ UNCHANGED <<jar, unlocks, earned, posted>>

Denied(h, k, s) ==
    /\ Asks(h, k)
    /\ Allows(limiter, k, now)
    /\ s # entries[h].secret
    /\ posted' = [posted EXCEPT ![k] = Append(@, now)]
    /\ UNCHANGED <<jar, unlocks, earned>>

(* The password is right: the grant is issued and stored.                  *)
Unlock(h, k, s) ==
    LET e == entries[h] IN
    /\ unlocks < MaxUnlocks
    /\ Asks(h, k)
    /\ Allows(limiter, k, now)
    /\ s = e.secret
    /\ jar' = Stored(e, GrantToken(e, now + TTL))
    /\ unlocks' = unlocks + 1
    /\ earned' = earned \cup {[entry |-> e, until |-> now + TTL, nth |-> unlocks]}
    /\ posted' = [posted EXCEPT ![k] = Append(@, now)]

(* Time passes, and the browser drops the cookies whose Max-Age is over.   *)
Tick ==
    /\ now < MaxTime
    /\ now' = now + 1
    /\ jar' = {c \in jar : now' <= c.token.exp}
    /\ earned' = {g \in earned : now' <= g.until}
    /\ posted' = [k \in Key |-> Live(posted[k], now')]
    /\ UNCHANGED <<entries, limiter, unlocks>>

(* The relay starts again: routes and hits are gone, the key that signs    *)
(* the tokens was saved (loadSessionSecret).                               *)
Restart ==
    /\ entries' = [h \in Host |-> None]
    /\ limiter' = NewLimiter(now)
    /\ posted' = [k \in Key |-> <<>>]
    /\ UNCHANGED <<now, jar, unlocks, earned>>

Next ==
    \/ \E e \in Offers : Connect(e)
    \/ \E h \in Host : Disconnect(h) \/ Carries(h)
    \/ \E h \in Host, k \in Key : SlowDown(h, k)
    \/ \E h \in Host, k \in Key, s \in Secret : Denied(h, k, s) \/ Unlock(h, k, s)
    \/ Tick
    \/ Restart

Spec == Init /\ [][Next]_vars

-----------------------------------------------------------------------------
(* Every variable has its type; a name and domain have one cookie, and no  *)
(* two cookies are of an age.                                              *)
Token == [host : Host \cup {NoHost}, user : User \cup {NoUser},
          group : Group \cup {NoGroup}, secret : Secret \cup {NoSecret}, exp : Nat]
Cookie == [name : [user : User \cup {NoUser}, group : Group \cup {NoGroup}],
           domain : Host \cup {Apex}, token : Token, born : Nat]

GateTypeOK ==
    /\ now \in Nat /\ unlocks \in Nat
    /\ entries \in [Host -> Offers \cup {None}]
    /\ \A h \in Host : entries[h].host \in {h, NoHost}
    /\ limiter \in [hits : [Key -> Seq(Nat)], lastGC : Nat]
    /\ posted \in [Key -> Seq(Nat)]
    /\ jar \subseteq Cookie
    /\ \A c, d \in jar : c.born = d.born \/ (c.name = d.name /\ c.domain = d.domain)
                         => c = d
    /\ earned \subseteq [entry : Entry, until : Nat, nth : Nat]

(* What a password proven at one entry is a grant for.                     *)
Covers(g, e) ==
    /\ now <= g.until
    /\ Grouped(g.entry) = Grouped(e)
    /\ IF Grouped(e)
       THEN /\ g.entry.user = e.user
            /\ g.entry.group = e.group
            /\ g.entry.secret = e.secret
       ELSE g.entry.host = e.host

(* A visitor is let through a gate by a cookie only while a password of    *)
(* theirs covers it: the owner's group and its present secret, or, for a   *)
(* host grant, that host, whoever has it by now (main.go:690-714).         *)
GrantIsEarned ==
    \A h \in Host :
        Gated(entries[h]) /\ HasGrant(entries[h]) => \E g \in earned : Covers(g, entries[h])

(* A later password of the visitor's bought the same cookie again.         *)
Superseded(g) ==
    \E f \in earned : /\ f.nth > g.nth
                      /\ CookieName(f.entry) = CookieName(g.entry)
                      /\ CookieDomain(f.entry) = CookieDomain(g.entry)

(* Who unlocked a gate is not asked again, there or on a sibling host of   *)
(* the group, before the token expires, whatever gates of other groups and *)
(* hosts they unlock besides: README.md:97, "cookie keeps them signed in". *)
UnlockedStaysOpen ==
    \A h \in Host :
        Gated(entries[h]) /\ (\E g \in earned : Covers(g, entries[h]) /\ ~Superseded(g))
        => HasGrant(entries[h])

(* However posts, sweeps, time and requests that carry a secret            *)
(* interleave, no address has more than MaxHits *posted* passwords looked  *)
(* at in any window, and nobody is told to slow down who has not used the  *)
(* window up by posting (limiter.go:31-68, main.go:638-643).  Secrets that *)
(* requests carry are not limited at all, though limiter.go:9-10 says that *)
(* the limiter guards tunnel-gate attempts.                                *)
PostsLimited ==
    \A k \in Key :
        /\ Len(posted[k]) <= MaxHits
        /\ Len(posted[k]) < MaxHits => Allows(limiter, k, now)

(* A sweep leaves no abandoned address behind: whoever has hits was seen   *)
(* in the window before the last sweep, or since.                          *)
AbandonedAreSwept ==
    \A k \in Key :
        LET s == limiter.hits[k] IN s # <<>> => s[Len(s)] + Window > limiter.lastGC
=============================================================================
