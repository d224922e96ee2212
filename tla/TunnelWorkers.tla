---------------------------- MODULE TunnelWorkers ----------------------------
(***************************************************************************)
(* The detached tunnel workers of the CLI (`roxey _run`, worker.Run over   *)
(* tunnel.Hold) and the routes the relay holds for them.  The relay        *)
(* appears as what it promises, RouteDirectory: a route has one owner, a   *)
(* second tunnel for it is refused, and the owner's session going down     *)
(* releases it -- later, when the relay's own handler gets to it.          *)
(***************************************************************************)
EXTENDS Naturals, FiniteSets

CONSTANTS
    Host, Prefix, Root,      \* routes, as in RouteDirectory
    Worker,                  \* process ids of workers, each used once
    NoWorker, NoRoute,
    Unreliable               \* links may drop, dials fail, the relay restart

ASSUME WorkersAssumption ==
    /\ Root \notin Prefix
    /\ NoWorker \notin Worker
    /\ NoRoute \notin Host \X (Prefix \cup {Root})
    /\ Unreliable \in BOOLEAN

VARIABLES
    owner,        \* [Route -> the worker whose session the relay routes to]
    worker,       \* [Worker -> where its process is]
    job,          \* [Worker -> the route it was started for]
    linked,       \* workers whose session with the relay is alive
    signal        \* workers that were sent a signal

workerVars == <<owner, worker, job, linked, signal>>

Route == Host \X (Prefix \cup {Root})
Phases == {"unborn", "dialing", "holding", "retrying", "gone"}
Live == {"dialing", "holding", "retrying"}

InitWorkers ==
    /\ owner = [r \in Route |-> NoWorker]
    /\ worker = [w \in Worker |-> "unborn"]
    /\ job = [w \in Worker |-> NoRoute]
    /\ linked = {}
    /\ signal = {}

Becomes(w, phase) == worker' = [worker EXCEPT ![w] = phase]

-----------------------------------------------------------------------------
(* startOne executes a worker for r.                                       *)
Spawn(w, r) ==
    /\ worker[w] = "unborn"
    /\ Becomes(w, "dialing")
    /\ job' = [job EXCEPT ![w] = r]
    /\ UNCHANGED <<owner, linked, signal>>

(* Dial: the relay accepts the tunnel and greets it.                       *)
Connects(w) ==
    /\ owner[job[w]] = NoWorker
    /\ owner' = [owner EXCEPT ![job[w]] = w]
    /\ linked' = linked \cup {w}

(* Dial: the route is taken (409), or the network fails, perhaps after the *)
(* relay has registered the route.                                         *)
DialFails(w) ==
    /\ \/ owner[job[w]] # NoWorker /\ UNCHANGED owner
       \/ Unreliable /\ UNCHANGED owner
       \/ /\ Unreliable /\ owner[job[w]] = NoWorker
          /\ owner' = [owner EXCEPT ![job[w]] = w]
    /\ UNCHANGED linked

(* Hold's first Dial is synchronous: its error ends the worker.            *)
FirstDial(w) ==
    /\ worker[w] = "dialing"
    /\ \/ Connects(w) /\ Becomes(w, "holding")
       \/ DialFails(w) /\ Becomes(w, "gone")
    /\ UNCHANGED <<job, signal>>

(* Hold sees t.Done() and starts its reconnect loop.                       *)
Notice(w) ==
    /\ worker[w] = "holding" /\ w \notin linked
    /\ Becomes(w, "retrying")
    /\ UNCHANGED <<owner, job, linked, signal>>

(* Mutant: one attempt only.                                               *)
RedialOnce(w) ==
    /\ worker[w] = "retrying"
    /\ \/ Connects(w) /\ Becomes(w, "holding")
       \/ DialFails(w) /\ Becomes(w, "gone")
    /\ UNCHANGED <<job, signal>>

(* One attempt of the loop; a failed one backs off and tries again.        *)
Redial(w) ==
    /\ worker[w] = "retrying"
    /\ \/ Connects(w) /\ Becomes(w, "holding")
       \/ DialFails(w) /\ UNCHANGED worker
    /\ UNCHANGED <<job, signal>>

GetsThrough(w) == Redial(w) /\ Becomes(w, "holding")

(* Mutant: Hold forgets to look at ctx.Err() after t.Done().               *)
StopReconnects(w) ==
    /\ w \in signal /\ worker[w] \in Live
    /\ Becomes(w, "retrying")
    /\ linked' = linked \ {w}
    /\ UNCHANGED <<owner, job, signal>>

(* SIGTERM or SIGINT ends the context: whatever Hold is doing, it closes   *)
(* the tunnel and the process exits.                                       *)
Stop(w) ==
    /\ w \in signal /\ worker[w] \in Live
    /\ Becomes(w, "gone")
    /\ linked' = linked \ {w}
    /\ UNCHANGED <<owner, job, signal>>

(* The session is lost on the way.                                         *)
Drop(w) ==
    /\ Unreliable /\ w \in linked
    /\ linked' = linked \ {w}
    /\ UNCHANGED <<owner, worker, job, signal>>

(* Mutant: any end of a session on the route releases it.                  *)
ReleaseAny(r) ==
    /\ owner[r] # NoWorker
    /\ owner' = [owner EXCEPT ![r] = NoWorker]
    /\ UNCHANGED <<worker, job, linked, signal>>

(* The relay's handler finds the session down and unregisters the route.   *)
Release(r) ==
    /\ owner[r] # NoWorker /\ owner[r] \notin linked
    /\ owner' = [owner EXCEPT ![r] = NoWorker]
    /\ UNCHANGED <<worker, job, linked, signal>>

(* The same, of the handler of w's session.                                *)
ReleasesOf(w) == \E r \in Route : owner[r] = w /\ Release(r)

RelayRestarts ==
    /\ Unreliable
    /\ owner' = [r \in Route |-> NoWorker]
    /\ linked' = {}
    /\ UNCHANGED <<worker, job, signal>>

WorkerStep(w) == FirstDial(w) \/ Notice(w) \/ Redial(w) \/ Stop(w)

WorkersNext ==
    \/ \E w \in Worker : WorkerStep(w) \/ Drop(w)
    \/ \E r \in Route : Release(r)
    \/ RelayRestarts

-----------------------------------------------------------------------------
(* By themselves: workers are started and signalled at any time.           *)
SendSignal(w) ==
    /\ worker[w] \in Live
    /\ signal' = signal \cup {w}
    /\ UNCHANGED <<owner, worker, job, linked>>

FreeNext ==
    \/ WorkersNext
    \/ \E w \in Worker : SendSignal(w) \/ \E r \in Route : Spawn(w, r)

FreeSpec == InitWorkers /\ [][FreeNext]_workerVars

(* The scheduler runs what can run; the relay's handler of a worker's      *)
(* session gets to its clean-up; of the attempts the back-off makes while  *)
(* the route is free one gets through the network in the end.              *)
WorkerFairness(w) ==
    /\ WF_workerVars(Stop(w))
    /\ SF_workerVars(GetsThrough(w))
    /\ WF_workerVars(ReleasesOf(w))

WorkersFairness == \A w \in Worker : WorkerFairness(w)

-----------------------------------------------------------------------------
(* Types; only a worker that was started has a route.                      *)
WorkersTypeOK ==
    /\ owner \in [Route -> Worker \cup {NoWorker}]
    /\ worker \in [Worker -> Phases]
    /\ job \in [Worker -> Route \cup {NoRoute}]
    /\ \A w \in Worker : job[w] = NoRoute <=> worker[w] = "unborn"
    /\ linked \subseteq Worker
    /\ signal \subseteq Worker

(* Hazard: a late clean-up of an old session takes the route from the      *)
(* session that replaced it, and the worker, still connected, never        *)
(* notices.  A worker with a live session is the owner of its own route.   *)
LinkedIsRouted ==
    \A w \in linked : job[w] \in Route /\ owner[job[w]] = w

(* Hazard: a relay restart or a network blip ends a tunnel for good        *)
(* because the relay still holds its old session when it redials.  A       *)
(* worker that lost its session gets it back, unless it is signalled or    *)
(* another tunnel has taken the route (Hold's doc comment).                *)
ComesBack ==
    \A w \in Worker :
        (worker[w] = "retrying") ~>
            \/ worker[w] = "holding" \/ w \in signal
            \/ \E r \in Route : job[w] = r /\ owner[r] \notin {w, NoWorker}

(* Hazard: a worker that was told to stop reconnects.  A signalled worker  *)
(* loses its route for good (README.md:360).                               *)
StoppedFreesRoute ==
    \A w \in Worker :
        (w \in signal) ~>
            [](worker[w] = "gone" /\ \A r \in Route : owner[r] # w)
=============================================================================
