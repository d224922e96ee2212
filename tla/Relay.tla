-------------------------------- MODULE Relay --------------------------------
(***************************************************************************)
(* The relay server of src/backend: websocket handlers that bring tunnels  *)
(* up and down (handleWSUpgrade), and public requests that are routed into *)
(* them (handleTunnelRequest, Entry.OpenStream).  A handler makes at most  *)
(* one *Entry, so the two share an identity, and the goroutines interleave *)
(* between any two steps that touch shared state.  The relay may crash and *)
(* restart: the routing table is memory, the event rows are on disk.       *)
(***************************************************************************)
EXTENDS RouteTable

CONSTANTS
    Visit,        \* public requests
    Secret,       \* shared secrets of protected tunnels (by their hash)
    NoSecret,     \* a public tunnel
    HostCookie,   \* a gate cookie signed for the host of the request
    Asked,        \* tunnels that CLIs ask for
    Presented,    \* sets of credentials that requests come with
    NoTunnel,     \* no handler has started yet
    NoVisit,      \* the request has not arrived yet
    MaxCrashes    \* bound on relay crashes

Tunnel == [host : Host, prefix : Route, protect : Secret \cup {NoSecret}]
Credential == Secret \cup {HostCookie}

ASSUME RelayAssumption ==
    /\ NoSecret \notin Secret
    /\ HostCookie \notin Secret \cup {NoSecret}
    /\ Asked \subseteq Tunnel
    /\ Presented \subseteq SUBSET Credential
    /\ MaxCrashes \in Nat

VARIABLES
    up,           \* the relay process is running
    handler,      \* [Entry -> where its handleWSUpgrade goroutine is]
    tunnel,       \* [Entry -> what its CLI asked for]
    link,         \* [Entry -> state of the yamux session over its websocket]
    ready,        \* [Entry -> its ready channel is closed]
    greeted,      \* entries whose "host:" message was written
    event,        \* [Entry -> its row in tunnel_events]
    visit,        \* [Visit -> the request: where it is, what it asks, for whom]
    crashes       \* relay crashes so far

vars == <<up, table, handler, tunnel, link, ready, greeted, event, visit, crashes>>
handlerVars == <<tunnel, ready, greeted, event>>

Request == [phase : {"gate", "dialing", "waiting", "opening", "streaming", "over"},
            host : Host, path : Path, presents : SUBSET Credential,
            entry : Entry \cup {NoEntry}]

ASSUME VisitAssumption == NoVisit \notin Request

(* Phases between Register and Unregister.                                 *)
Holding == {"greeting", "greeted", "ready", "serving", "leaving"}
Phases == Holding \cup {"idle", "checking", "upgrading", "registering", "closing", "over"}

Init ==
    /\ up = TRUE
    /\ table = [h \in {} |-> EmptyTable]
    /\ handler = [e \in Entry |-> "idle"]
    /\ tunnel = [e \in Entry |-> NoTunnel]
    /\ link = [e \in Entry |-> "none"]
    /\ ready = [e \in Entry |-> FALSE]
    /\ greeted = {}
    /\ event = [e \in Entry |-> "none"]
    /\ visit = [v \in Visit |-> NoVisit]
    /\ crashes = 0

Goto(e, phase) == handler' = [handler EXCEPT ![e] = phase]

-----------------------------------------------------------------------------
(* handleWSUpgrade                                                         *)

(* A CLI asks for a tunnel with a key and a service name that are valid.   *)
Arrive(e) ==
    /\ up /\ handler[e] = "idle"
    /\ \E t \in Asked : tunnel' = [tunnel EXCEPT ![e] = t]
    /\ Goto(e, "checking")
    /\ UNCHANGED <<up, table, link, ready, greeted, event, visit, crashes>>

(* reg.Check: a taken route is refused with 409 before the upgrade.        *)
Check(e) ==
    /\ handler[e] = "checking"
    /\ Goto(e, IF Vacant(tunnel[e].host, tunnel[e].prefix) THEN "upgrading" ELSE "over")
    /\ UNCHANGED <<up, table, link, handlerVars, visit, crashes>>

(* upgrader.Upgrade and yamux.Server.                                      *)
Upgrade(e) ==
    /\ handler[e] = "upgrading"
    /\ \/ /\ Goto(e, "registering")
          /\ link' = [link EXCEPT ![e] = "open"]
       \/ /\ Goto(e, "over")
          /\ UNCHANGED link
    /\ UNCHANGED <<up, table, handlerVars, visit, crashes>>

(* Mutant: the template is registered without Pending.                     *)
RegisterReady(e) ==
    /\ handler[e] = "registering"
    /\ Register(tunnel[e].host, tunnel[e].prefix, e)
    /\ Goto(e, "greeting")
    /\ ready' = [ready EXCEPT ![e] = TRUE]
    /\ UNCHANGED <<up, tunnel, link, greeted, event, visit, crashes>>

(* reg.Register with Pending set; an error closes the websocket (4000).    *)
RegisterPending(e) ==
    /\ handler[e] = "registering"
    /\ \/ /\ Register(tunnel[e].host, tunnel[e].prefix, e)
          /\ Goto(e, "greeting")
          /\ UNCHANGED link
       \/ /\ RegisterFails(tunnel[e].host, tunnel[e].prefix)
          /\ Goto(e, "over")
          /\ link' = [link EXCEPT ![e] = "broken"]
    /\ UNCHANGED <<up, handlerVars, visit, crashes>>

(* Mutant: the greeting may go out before the registration.                *)
GreetEarly(e) ==
    /\ handler[e] \in {"registering", "greeting"}
    /\ greeted' = greeted \cup {e}
    /\ Goto(e, IF handler[e] = "greeting" THEN "greeted" ELSE "registering")
    /\ UNCHANGED <<up, table, tunnel, link, ready, event, visit, crashes>>

(* conn.WriteMessage "host:": the write may succeed though the CLI is gone. *)
Greet(e) ==
    /\ handler[e] = "greeting"
    /\ greeted' = greeted \cup {e}
    /\ Goto(e, "greeted")
    /\ UNCHANGED <<up, table, tunnel, link, ready, event, visit, crashes>>

(* Mutant: the failed greeting returns without unregistering.              *)
GreetFailsKeepsRoute(e) ==
    /\ handler[e] = "greeting" /\ link[e] = "broken"
    /\ Goto(e, "over")
    /\ UNCHANGED <<up, table, link, handlerVars, visit, crashes>>

GreetFails(e) ==
    /\ handler[e] = "greeting" /\ link[e] = "broken"
    /\ Unregister(tunnel[e].host, tunnel[e].prefix, e)
    /\ Goto(e, "over")
    /\ UNCHANGED <<up, link, handlerVars, visit, crashes>>

(* entry.Ready()                                                           *)
MarkReady(e) ==
    /\ handler[e] = "greeted"
    /\ ready' = [ready EXCEPT ![e] = TRUE]
    /\ Goto(e, "ready")
    /\ UNCHANGED <<up, table, tunnel, link, greeted, event, visit, crashes>>

(* st.RecordConnect: a failure is logged and the tunnel serves all the same. *)
RecordConnect(e) ==
    /\ handler[e] = "ready"
    /\ \E row \in {"open", "none"} : event' = [event EXCEPT ![e] = row]
    /\ Goto(e, "serving")
    /\ UNCHANGED <<up, table, tunnel, link, ready, greeted, visit, crashes>>

(* sess.Accept fails once the session is down; the deferred clean-up runs. *)
AcceptFails(e) ==
    /\ handler[e] = "serving" /\ link[e] = "broken"
    /\ Goto(e, "leaving")
    /\ UNCHANGED <<up, table, link, handlerVars, visit, crashes>>

(* Mutant: the clean-up forgets the table.                                 *)
LeaveKeepsRoute(e) ==
    /\ handler[e] = "leaving"
    /\ Goto(e, "closing")
    /\ UNCHANGED <<up, table, link, handlerVars, visit, crashes>>

Leave(e) ==
    /\ handler[e] = "leaving"
    /\ Unregister(tunnel[e].host, tunnel[e].prefix, e)
    /\ Goto(e, "closing")
    /\ UNCHANGED <<up, link, handlerVars, visit, crashes>>

(* Mutant: the row is closed ahead of the route.                           *)
RecordDisconnectFirst(e) ==
    /\ handler[e] \in {"leaving", "closing"} /\ event[e] = "open"
    /\ event' = [event EXCEPT ![e] = "closed"]
    /\ Goto(e, IF handler[e] = "closing" THEN "over" ELSE "leaving")
    /\ UNCHANGED <<up, table, tunnel, link, ready, greeted, visit, crashes>>

(* sess.Close, conn.Close and RecordDisconnect, whose failure is logged.   *)
RecordDisconnect(e) ==
    /\ handler[e] = "closing"
    /\ \/ UNCHANGED event
       \/ /\ event[e] = "open"
          /\ event' = [event EXCEPT ![e] = "closed"]
    /\ Goto(e, "over")
    /\ UNCHANGED <<up, table, tunnel, link, ready, greeted, visit, crashes>>

(* The CLI goes away, or yamux gives the session up.                       *)
LinkBreaks(e) ==
    /\ link[e] = "open"
    /\ link' = [link EXCEPT ![e] = "broken"]
    /\ UNCHANGED <<up, table, handler, handlerVars, visit, crashes>>

-----------------------------------------------------------------------------
(* handleTunnelRequest                                                     *)

MoveTo(v, phase) == visit' = [visit EXCEPT ![v].phase = phase]
UnchangedTunnels == UNCHANGED <<up, table, handler, handlerVars, link, crashes>>

(* reg.Resolve; a request nothing answers gets 502 "no active tunnel".     *)
ResolveRequest(v) ==
    /\ up /\ visit[v] = NoVisit
    /\ \E h \in Host, q \in Path, C \in Presented :
          LET e == Resolve(h, q)
          IN  visit' = [visit EXCEPT ![v] =
                  [phase |-> IF e = NoEntry THEN "over" ELSE "gate",
                   host |-> h, path |-> q, presents |-> C, entry |-> e]]
    /\ UnchangedTunnels

(* visitorCredential: a protected entry wants its own secret (in a header, *)
(* a parameter, or a group cookie bound to it) or its host's cookie.       *)
Admits(t, C) == t.protect = NoSecret \/ t.protect \in C \/ HostCookie \in C

(* Without a credential the gate is served in place of the tunnel.         *)
PassGate(v) ==
    /\ visit[v] # NoVisit /\ visit[v].phase = "gate"
    /\ MoveTo(v, IF Admits(tunnel[visit[v].entry], visit[v].presents)
                 THEN "dialing" ELSE "over")
    /\ UnchangedTunnels

(* Mutant: no timer.                                                       *)
AwaitReadyForever(v) ==
    /\ visit[v] # NoVisit /\ visit[v].phase \in {"dialing", "waiting"}
    /\ ready[visit[v].entry]
    /\ MoveTo(v, "opening")
    /\ UnchangedTunnels

(* OpenStream's select: a ready entry is dialled at once, a pending one is *)
(* waited for until ReadyTimeout, when either case of the select may win.  *)
AwaitReady(v) ==
    /\ visit[v] # NoVisit
    /\ \/ /\ visit[v].phase \in {"dialing", "waiting"} /\ ready[visit[v].entry]
          /\ MoveTo(v, "opening")
       \/ /\ visit[v].phase = "dialing" /\ ~ready[visit[v].entry]
          /\ MoveTo(v, "waiting")
       \/ /\ visit[v].phase = "waiting"
          /\ MoveTo(v, "over")
    /\ UnchangedTunnels

(* Mutant: the dial resolves the route a second time.                      *)
OpenStreamResolvesAgain(v) ==
    /\ visit[v] # NoVisit /\ visit[v].phase = "opening"
    /\ LET e == Resolve(visit[v].host, visit[v].path)
       IN  visit' = [visit EXCEPT
               ![v].entry = e,
               ![v].phase = IF e # NoEntry /\ link[e] = "open" THEN "streaming" ELSE "over"]
    /\ UnchangedTunnels

(* session.IsClosed and session.Open.                                      *)
OpenStream(v) ==
    /\ visit[v] # NoVisit /\ visit[v].phase = "opening"
    /\ MoveTo(v, IF link[visit[v].entry] = "open" THEN "streaming" ELSE "over")
    /\ UnchangedTunnels

(* The response is complete, or the session broke under it.                *)
EndStream(v) ==
    /\ visit[v] # NoVisit /\ visit[v].phase = "streaming"
    /\ MoveTo(v, "over")
    /\ UnchangedTunnels

-----------------------------------------------------------------------------
(* The process                                                             *)

Crash ==
    /\ up /\ crashes < MaxCrashes
    /\ up' = FALSE
    /\ crashes' = crashes + 1
    /\ table' = [h \in {} |-> EmptyTable]
    /\ handler' = [e \in Entry |-> IF handler[e] = "idle" THEN "idle" ELSE "over"]
    /\ link' = [e \in Entry |-> IF link[e] = "none" THEN "none" ELSE "broken"]
    /\ visit' = [v \in Visit |-> IF visit[v] = NoVisit THEN NoVisit
                                 ELSE [visit[v] EXCEPT !.phase = "over"]]
    /\ UNCHANGED handlerVars

Restart ==
    /\ ~up
    /\ up' = TRUE
    /\ UNCHANGED <<table, handler, handlerVars, link, visit, crashes>>

HandlerStep(e) ==
    \/ Check(e) \/ Upgrade(e) \/ RegisterPending(e)
    \/ Greet(e) \/ GreetFails(e) \/ MarkReady(e) \/ RecordConnect(e)
    \/ AcceptFails(e) \/ Leave(e) \/ RecordDisconnect(e)

RequestStep(v) == PassGate(v) \/ AwaitReady(v) \/ OpenStream(v)

Next ==
    \/ \E e \in Entry : Arrive(e) \/ HandlerStep(e) \/ LinkBreaks(e)
    \/ \E v \in Visit : ResolveRequest(v) \/ RequestStep(v) \/ EndStream(v)
    \/ Crash \/ Restart

Spec == Init /\ [][Next]_vars

(* Go schedules every runnable goroutine, and the 10 s timer fires.  That  *)
(* a CLI asks, leaves or stays, that a stream ends and that the relay      *)
(* crashes or is restarted is not assumed.                                 *)
HandlerFairness(e) == WF_vars(HandlerStep(e))
RequestFairness(v) == WF_vars(RequestStep(v))

FairSpec ==
    /\ Spec
    /\ \A e \in Entry : HandlerFairness(e)
    /\ \A v \in Visit : RequestFairness(v)

-----------------------------------------------------------------------------
(* Properties                                                              *)

TypeOK ==
    /\ up \in BOOLEAN /\ crashes \in 0..MaxCrashes
    /\ TableTypeOK
    /\ handler \in [Entry -> Phases]
    /\ tunnel \in [Entry -> Tunnel \cup {NoTunnel}]
    /\ link \in [Entry -> {"none", "open", "broken"}]
    /\ ready \in [Entry -> BOOLEAN]
    /\ greeted \subseteq Entry
    /\ event \in [Entry -> {"none", "open", "closed"}]
    /\ visit \in [Visit -> Request \cup {NoVisit}]

HasRoute(e) == Holds(tunnel[e].host, tunnel[e].prefix, e)
Streaming(v) == visit[v] # NoVisit /\ visit[v].phase = "streaming"

(* Hazard: two handlers both pass Check and then both upgrade; a session   *)
(* that ends late removes the route of its successor; a failed greeting or *)
(* a crash leaves a route behind.  At every moment the table holds exactly *)
(* the entries of the handlers between Register and Unregister, each under *)
(* the route its CLI asked for (main.go:546-622, relay.go:125-183).        *)
RoutesHeldExactly ==
    \A e \in Entry, h \in Host, p \in Route :
        Holds(h, p, e) <=>
            /\ handler[e] \in Holding
            /\ tunnel[e].host = h /\ tunnel[e].prefix = p

(* Hazard: the greeting is sent before the route exists, and a CLI that    *)
(* reports its tunnel as connected sees "no active tunnel".  A CLI that    *)
(* was greeted and is still connected has its route (the comment at        *)
(* main.go:563-567).                                                       *)
GreetedIsRouted ==
    \A e \in greeted : link[e] = "open" => HasRoute(e)

(* Hazard: a request that resolves a route the moment it is registered     *)
(* puts a stream frame on the wire ahead of the greeting, which the CLI    *)
(* reads as its host.  No request opens a stream to a CLI that has not     *)
(* been greeted (Entry.Pending, relay.go:33-36).                           *)
NoStreamBeforeGreeting ==
    \A v \in Visit : Streaming(v) => visit[v].entry \in greeted

(* Hazard: between the gate and the dial the route changes hands, and the  *)
(* request reaches a tunnel whose gate it did not pass, or another host's. *)
(* A request streams only to a tunnel of its own host, whose prefix its    *)
(* path is under and whose gate it has a credential for (main.go:625-668). *)
OnlyThroughItsGate ==
    \A v \in Visit : Streaming(v) =>
        LET t == tunnel[visit[v].entry]
        IN  /\ t.host = visit[v].host
            /\ t.prefix = Root \/ t.prefix \in Under[visit[v].path]
            /\ Admits(t, visit[v].presents)

(* Hazard: a live tunnel loses its route to another handler's step.  A     *)
(* greeted tunnel's route goes only once its own session is down, or with  *)
(* the whole process (Unregister's identity test, relay.go:168-177).       *)
LiveRouteStays ==
    [][\A e \in Entry :
          e \in greeted /\ HasRoute(e) /\ ~HasRoute(e)'
              => link[e] = "broken" \/ ~up']_vars

(* Hazard: the history page shows a tunnel as ended while visitors still   *)
(* reach it, or a row that was ended comes back.  A row is closed only     *)
(* when the tunnel has no route any more, and stays closed (the order in   *)
(* the deferred function, main.go:601-610).                                *)
RowClosesAfterRoute ==
    [][\A e \in Entry :
          /\ event[e] # "closed" /\ event'[e] = "closed" => ~HasRoute(e)
          /\ event[e] = "closed" => event'[e] = "closed" /\ ~HasRoute(e)']_vars

(* The handlers, with the table between them, implement the directory: a   *)
(* route passes from one tunnel to the next only through being free.       *)
ImplementsDirectory == Directory!Spec

(* Hazard: a route outlives its tunnel for good and every later `roxey up` *)
(* is told "service already in use".  Whatever step its handler was at, a  *)
(* tunnel whose session is down gives its route up (main.go:589-610).      *)
BrokenTunnelFreesRoute ==
    \A e \in Entry :
        (link[e] = "broken") ~> (tunnel[e] = NoTunnel \/ ~HasRoute(e))

(* Hazard: a request waits for a tunnel that is never marked ready (its    *)
(* greeting failed) and hangs.  Every request is answered or streams       *)
(* (ReadyTimeout, relay.go:60-65).                                         *)
RequestsSettle ==
    \A v \in Visit :
        (visit[v] # NoVisit) ~>
            (visit[v] # NoVisit /\ visit[v].phase \in {"streaming", "over"})
=============================================================================
