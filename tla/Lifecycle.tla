------------------------------ MODULE Lifecycle ------------------------------
(***************************************************************************)
(* roxey up, up -d and down, start and stop (src/cli/main.go): commands    *)
(* that bring the services and tunnels of a manifest up and down, and      *)
(* those that open and close a single tunnel, as processes over the files  *)
(* they share.  tunnels.json and services.json are read at one moment and  *)
(* written back at another, without a lock; a command may be interrupted   *)
(* between any two steps; the workers and services it spawned are sessions *)
(* of their own and outlive it.                                            *)
(***************************************************************************)
EXTENDS TunnelWorkers

CONSTANTS
    Manifest,
    RoutesOf,        \* [Manifest -> the routes it declares]
    RunRoute,        \* the routes whose service roxey spawns itself
    AdHoc, NoManifest,    \* the routes `start` is used for, without a manifest
    Port,
    Declared,        \* [RunRoute -> the port the manifest pins, or AnyFree]
    AnyFree,
    Service,         \* process groups of services, each used once
    NoService,
    Command,         \* invocations of the CLI, each used once
    Idle, NoCommand,
    Stubborn,        \* a member of a service's group may ignore SIGTERM
    Restarting,      \* a group may have another listener when one is gone
    MaxRunning,      \* bound on commands running at once
    MaxBusy,         \* bound on those that do not just wait in the foreground
    MaxKills         \* bound on commands interrupted or killed

ASSUME LifecycleAssumption ==
    /\ RoutesOf \in [Manifest -> SUBSET Route]
    /\ \A m1, m2 \in Manifest : m1 # m2 => RoutesOf[m1] \cap RoutesOf[m2] = {}
    /\ RunRoute \subseteq Route /\ AdHoc \subseteq Route
    /\ NoManifest \notin Manifest /\ Port # {}
    /\ Declared \in [RunRoute -> Port \cup {AnyFree}] /\ AnyFree \notin Port
    /\ NoService \notin Service /\ NoCommand \notin Command
    /\ Stubborn \in BOOLEAN /\ Restarting \in BOOLEAN
    /\ {MaxRunning, MaxBusy, MaxKills} \subseteq Nat

VARIABLES
    service,         \* [Service -> what is left of its process group]
    serves,          \* [Service -> the route it was spawned for]
    port,            \* [Service -> the port it listens on]
    parent,          \* [Service -> the command that spawned it]
    path,            \* [Worker -> the manifest it is recorded with]
    tunnelsFile,     \* [Route -> the worker tunnels.json records]
    servicesFile,    \* [RunRoute -> the service services.json records]
    cmd,             \* [Command -> its state, Idle before it starts]
    last,            \* the command started last (history)
    overlapped,      \* some command began while another ran (history)
    late,            \* services whose listener is not the one Spawn waited for,
                     \* but came later (history)
    kills

files == <<tunnelsFile, servicesFile>>
serving == <<serves, port, parent, path>>
serviceVars == <<service, serving>>
history == <<last, overlapped, late, kills>>
vars == <<workerVars, serviceVars, files, cmd, history>>

Ended == {"done", "failed", "killed"}
BringUp == {"loadServices", "killOld", "saveStopped", "reclaim", "spawn",
            "open", "saveOne"}
TearDown == {"teardown", "saveTorn", "killServices", "saveKilled"}
ByKey == {"stop", "saveStop"}

CommandState ==
    [op : {"up", "up -d", "down", "start", "stop"},
     manifest : Manifest \cup {NoManifest},
     pc : BringUp \cup TearDown \cup ByKey \cup {"waiting"} \cup Ended,
     svcs : [RunRoute -> Service \cup {NoService}],   \* its copy of services.json
     tuns : [Route -> Worker \cup {NoWorker}],        \* tunnels.json, until it saves
     ports : [RunRoute -> Port],
     todo : SUBSET Route]

ASSUME IdleAssumption == Idle \notin CommandState

AnyPort == CHOOSE p \in Port : TRUE
NoPorts == [r \in RunRoute |-> AnyPort]
NoServices == [r \in RunRoute |-> NoService]
NoTunnels == [r \in Route |-> NoWorker]

Init ==
    /\ InitWorkers
    /\ service = [s \in Service |-> "unborn"]
    /\ serves = [s \in Service |-> NoRoute]
    /\ port = [s \in Service |-> AnyFree]
    /\ parent = [s \in Service |-> NoCommand]
    /\ path = [w \in Worker |-> NoManifest]
    /\ tunnelsFile = NoTunnels
    /\ servicesFile = NoServices
    /\ cmd = [c \in Command |-> Idle]
    /\ last = NoCommand
    /\ overlapped = FALSE
    /\ late = {}
    /\ kills = 0

-----------------------------------------------------------------------------
Running(c) == cmd[c] # Idle /\ cmd[c].pc \notin Ended
At(c, pc) == cmd[c] # Idle /\ cmd[c].pc = pc
Mine(c) == IF cmd[c].manifest = NoManifest THEN {} ELSE RoutesOf[cmd[c].manifest]
Runs(c) == Mine(c) \cap RunRoute

(* The records of tunnels.json for a manifest, and sameHost.               *)
Records == {r \in Route : tunnelsFile[r] # NoWorker}
RecordsOf(m) == {r \in Records : path[tunnelsFile[r]] = m}
SameHost(r, c) == \E q \in Mine(c) : r[1] = q[1]

AliveWorker(w) == w # NoWorker /\ worker[w] \in Live

(* A service is a process group: its leader, whose PID is on record, and   *)
(* others, of which one listens ("up"); the leader without a listener      *)
(* ("quiet"), others without the leader ("lingering", "leftover"), none.   *)
HasLeader == {"up", "quiet"}
HasListener == {"up", "lingering"}
AliveService(s) == s # NoService /\ service[s] \in HasLeader
Listens(s, p) == service[s] \in HasListener /\ port[s] = p
StillLate == late' = {s \in late : service'[s] \in HasListener}
Silent(st) == IF st \in HasLeader THEN "quiet" ELSE "leftover"
Headless(st) == IF st \in HasListener THEN "lingering" ELSE "leftover"

(* What KillGroup(pid) may leave of the groups in S.  It returns as soon   *)
(* as the leader is gone, and sends SIGKILL to the group only when the     *)
(* leader takes longer; the leader of a foreground `up` is not reaped      *)
(* while that command runs and always takes longer.                        *)
Lingers(s) ==
    /\ Stubborn /\ service[s] \in HasLeader
    /\ ~(Running(parent[s]) /\ cmd[parent[s]].op = "up")
KillGroups(S) ==
    /\ \E L \in SUBSET {s \in S : Lingers(s)} :
          service' = [s \in Service |->
              IF s \in L THEN Headless(service[s])
              ELSE IF s \in S /\ service[s] \in HasLeader THEN "dead" ELSE service[s]]
    /\ StillLate

(* The commands.  A process that ends takes its copies with it.            *)
Step(c, st) == cmd' = [cmd EXCEPT ![c] = st]
End(c, pc) ==
    Step(c, [cmd[c] EXCEPT !.pc = pc, !.svcs = NoServices, !.tuns = NoTunnels,
                           !.todo = {}])

(* AssignPorts: the pinned ports, and distinct ones nobody listens on for  *)
(* the other routes.                                                       *)
FreePorts == {p \in Port : \A s \in Service : ~Listens(s, p)}
Assigned(m) ==
    {f \in [RunRoute -> Port] :
        /\ \A r \in RunRoute \cap RoutesOf[m] :
              IF Declared[r] = AnyFree THEN f[r] \in FreePorts ELSE f[r] = Declared[r]
        /\ \A r1, r2 \in RunRoute \cap RoutesOf[m] :
              Declared[r1] = AnyFree /\ f[r1] = f[r2] => r1 = r2
        /\ \A r \in RunRoute \ RoutesOf[m] : f[r] = AnyPort}

Begin(c, op, m, pc, f, routes) ==
    /\ cmd[c] = Idle
    /\ Cardinality({d \in Command : Running(d)}) < MaxRunning
    /\ Cardinality({d \in Command : Running(d) /\ ~At(d, "waiting")}) < MaxBusy
    /\ Step(c, [op |-> op, manifest |-> m, pc |-> pc, svcs |-> NoServices,
                tuns |-> NoTunnels, ports |-> f, todo |-> routes])
    /\ last' = c
    /\ overlapped' = (overlapped \/ \E d \in Command : Running(d))
    /\ UNCHANGED <<workerVars, serviceVars, files, late, kills>>

(* cmdUp up to the point where it knows its routes and their ports.        *)
BeginUp(c) ==
    \E op \in {"up", "up -d"}, m \in Manifest : \E f \in Assigned(m) :
        Begin(c, op, m, "loadServices", f, {})

(* cmdDown needs the manifest only.                                        *)
BeginDown(c) ==
    \E m \in Manifest : Begin(c, "down", m, "teardown", NoPorts, {})

(* cmdStart goes straight to startOne, without a manifest; cmdStop works   *)
(* on one service or route.                                                *)
BeginStart(c) ==
    \E r \in AdHoc : Begin(c, "start", NoManifest, "open", NoPorts, {r})

BeginStop(c) ==
    \E r \in Route : Begin(c, "stop", NoManifest, "stop", NoPorts, {r})

(* LoadServices and pruneDeadServices.                                     *)
Pruned(f) == [r \in RunRoute |-> IF AliveService(f[r]) THEN f[r] ELSE NoService]

LoadServices(c) ==
    /\ At(c, "loadServices")
    /\ LET alive == Pruned(servicesFile)
       IN  Step(c, [cmd[c] EXCEPT !.pc = "killOld", !.svcs = alive,
                                  !.todo = {r \in Runs(c) : alive[r] # NoService}])
    /\ UNCHANGED <<workerVars, serviceVars, files, history>>

(* KillGroup of what an earlier run of the manifest left.                  *)
KillOld(c) ==
    /\ At(c, "killOld")
    /\ \E r \in cmd[c].todo :
          /\ KillGroups({cmd[c].svcs[r]})
          /\ Step(c, [cmd[c] EXCEPT !.svcs[r] = NoService, !.todo = @ \ {r}])
    /\ UNCHANGED <<workerVars, serving, files, last, overlapped, kills>>

(* Mutant: the old workers are forgotten, not stopped.                     *)
ForgetOld(c) ==
    /\ At(c, "killOld") /\ cmd[c].todo = {}
    /\ Step(c, [cmd[c] EXCEPT !.pc = "saveStopped",
           !.tuns = [r \in Route |->
              IF r \in RecordsOf(cmd[c].manifest) THEN NoWorker ELSE tunnelsFile[r]]])
    /\ UNCHANGED <<workerVars, serviceVars, files, history>>

(* LoadTunnels; the manifest's live workers get SIGTERM.  Nobody waits     *)
(* for them.                                                               *)
StopOld(c) ==
    /\ At(c, "killOld") /\ cmd[c].todo = {}
    /\ LET old == {r \in RecordsOf(cmd[c].manifest) : AliveWorker(tunnelsFile[r])}
       IN  /\ signal' = signal \cup {tunnelsFile[r] : r \in old}
           /\ Step(c, [cmd[c] EXCEPT !.pc = "saveStopped",
                  !.tuns = [r \in Route |-> IF r \in old THEN NoWorker ELSE tunnelsFile[r]]])
    /\ UNCHANGED <<owner, worker, job, linked, serviceVars, files, history>>

SaveStopped(c) ==
    /\ At(c, "saveStopped")
    /\ tunnelsFile' = cmd[c].tuns
    /\ Step(c, [cmd[c] EXCEPT !.pc = "reclaim", !.tuns = NoTunnels])
    /\ UNCHANGED <<workerVars, serviceVars, servicesFile, history>>

(* Mutant: the ports are taken as they are.                                *)
ReclaimNothing(c) ==
    /\ At(c, "reclaim")
    /\ Step(c, [cmd[c] EXCEPT !.pc = "spawn", !.todo = Runs(c)])
    /\ UNCHANGED <<workerVars, serviceVars, files, history>>

(* ReclaimPort: whoever listens on one of the ports is killed, alone: the  *)
(* rest of its group may go on.                                            *)
ReclaimPorts(P) ==
    LET listening == {s \in Service : \E p \in P : Listens(s, p)}
    IN  /\ \E rest \in SUBSET listening :
              service' = [s \in Service |->
                  IF s \in rest THEN Silent(service[s])
                  ELSE IF s \in listening THEN "dead" ELSE service[s]]
        /\ StillLate

Reclaim(c) ==
    /\ At(c, "reclaim")
    /\ ReclaimPorts({cmd[c].ports[r] : r \in Runs(c)})
    /\ Step(c, [cmd[c] EXCEPT !.pc = "spawn", !.todo = Runs(c)])
    /\ UNCHANGED <<workerVars, serving, files, last, overlapped, kills>>

NewGroup(s, r, p, c, st) ==
    /\ service[s] = "unborn"
    /\ service' = [service EXCEPT ![s] = st]
    /\ serves' = [serves EXCEPT ![s] = r]
    /\ port' = [port EXCEPT ![s] = p]
    /\ parent' = [parent EXCEPT ![s] = c]
    /\ UNCHANGED path

(* runner.Spawn, SpawnForeground: of a service whose port is taken nobody  *)
(* listens, and it dies or not, but the readiness probe may be answered by *)
(* the other listener first.                                               *)
SpawnGroup(s, r, p, c) ==
    \E st \in IF \E x \in Service : Listens(x, p) THEN {"dead", "quiet"} ELSE {"up"} :
        NewGroup(s, r, p, c, st)

(* startService of one route, which comes up or is skipped.                *)
SpawnService(c) ==
    /\ At(c, "spawn")
    /\ \E r \in cmd[c].todo, s \in Service :
          /\ SpawnGroup(s, r, cmd[c].ports[r], c)
          /\ Step(c, [cmd[c] EXCEPT !.svcs[r] = s, !.todo = @ \ {r}])
    /\ UNCHANGED <<workerVars, files, history>>

(* Nobody listens in time, and KillGroup ends the group, or all but a      *)
(* stubborn member if the leader is reaped (Spawn).  It is not recorded.   *)
SpawnFails(c) ==
    /\ At(c, "spawn")
    /\ \E r \in cmd[c].todo :
          /\ Step(c, [cmd[c] EXCEPT !.todo = @ \ {r}])
          /\ \/ UNCHANGED serviceVars
             \/ /\ Stubborn /\ cmd[c].op = "up -d"
                /\ \E s \in Service : NewGroup(s, r, cmd[c].ports[r], c, "leftover")
    /\ UNCHANGED <<workerVars, files, history>>

(* Mutant: the services are recorded once everything is up.                *)
SaveServicesLater(c) ==
    /\ At(c, "spawn") /\ cmd[c].todo = {}
    /\ Step(c, [cmd[c] EXCEPT !.pc = "open", !.todo = Mine(c)])
    /\ UNCHANGED <<workerVars, serviceVars, files, history>>

SaveServices(c) ==
    /\ At(c, "spawn") /\ cmd[c].todo = {}
    /\ servicesFile' = cmd[c].svcs
    /\ Step(c, [cmd[c] EXCEPT !.pc = "open", !.todo = Mine(c)])
    /\ UNCHANGED <<workerVars, serviceVars, tunnelsFile, history>>

(* startOne up to the start of the worker: a key with a live worker,       *)
(* whoever started it, is refused, and the command ends where it is.       *)
Open(c) ==
    /\ At(c, "open")
    /\ \E r \in cmd[c].todo, w \in Worker :
          /\ ~AliveWorker(tunnelsFile[r])
          /\ Spawn(w, r)
          /\ path' = [path EXCEPT ![w] = cmd[c].manifest]
          /\ Step(c, [cmd[c] EXCEPT !.pc = "saveOne", !.todo = @ \ {r},
                                    !.tuns = [tunnelsFile EXCEPT ![r] = w]])
    /\ UNCHANGED <<service, serves, port, parent, files, history>>

OpenFails(c) ==
    /\ At(c, "open") /\ cmd[c].todo # {}
    /\ End(c, "failed")
    /\ UNCHANGED <<workerVars, serviceVars, files, history>>

SaveOne(c) ==
    /\ At(c, "saveOne")
    /\ tunnelsFile' = cmd[c].tuns
    /\ Step(c, [cmd[c] EXCEPT !.pc = "open", !.tuns = NoTunnels])
    /\ UNCHANGED <<workerVars, serviceVars, servicesFile, history>>

(* Detached, the services are saved once more; in the foreground the       *)
(* command waits.                                                          *)
Finish(c) ==
    /\ At(c, "open") /\ cmd[c].todo = {}
    /\ IF cmd[c].op = "up" THEN Step(c, [cmd[c] EXCEPT !.pc = "waiting"])
                           ELSE End(c, "done")
    /\ servicesFile' = IF cmd[c].op = "up -d" THEN cmd[c].svcs ELSE servicesFile
    /\ UNCHANGED <<workerVars, serviceVars, tunnelsFile, history>>

(* waitForeground: a signal, or the output of a service it spawned ends.   *)
Wake(c) ==
    /\ At(c, "waiting")
    /\ Step(c, [cmd[c] EXCEPT !.pc = "teardown"])
    /\ UNCHANGED <<workerVars, serviceVars, files, history>>

ChildExits(c) ==
    /\ \E s \in Service : parent[s] = c /\ service[s] = "dead"
    /\ Wake(c)

-----------------------------------------------------------------------------
(* stopKey for each of the routes: SIGTERM, whether it is alive or not.    *)
StopKeys(c, routes, pc) ==
    /\ signal' = signal \cup {tunnelsFile[r] : r \in routes}
    /\ Step(c, [cmd[c] EXCEPT !.pc = pc,
           !.tuns = [r \in Route |-> IF r \in routes THEN NoWorker ELSE tunnelsFile[r]]])

(* teardownManifest, and cmdDown likewise, which also takes the ad-hoc     *)
(* tunnels of the manifest's hosts.                                        *)
StopTunnels(c) ==
    /\ At(c, "teardown")
    /\ LET adHoc == {r \in RecordsOf(NoManifest) : cmd[c].op = "down" /\ SameHost(r, c)}
       IN  StopKeys(c, RecordsOf(cmd[c].manifest) \cup adHoc, "saveTorn")
    /\ UNCHANGED <<owner, worker, job, linked, serviceVars, files, history>>

SaveTorn(c) ==
    /\ At(c, "saveTorn")
    /\ tunnelsFile' = cmd[c].tuns
    /\ Step(c, [cmd[c] EXCEPT !.pc = "killServices", !.tuns = NoTunnels])
    /\ UNCHANGED <<workerVars, serviceVars, servicesFile, history>>

(* Mutant: every recorded service, whatever its manifest.                  *)
KillAllServices(c) ==
    /\ At(c, "killServices")
    /\ KillGroups({servicesFile[r] : r \in RunRoute} \ {NoService})
    /\ Step(c, [cmd[c] EXCEPT !.pc = "saveKilled",
           !.svcs = [r \in RunRoute |-> NoService]])
    /\ UNCHANGED <<workerVars, serving, files, last, overlapped, kills>>

KillServices(c) ==
    /\ At(c, "killServices")
    /\ KillGroups({servicesFile[r] : r \in Runs(c)} \ {NoService})
    /\ Step(c, [cmd[c] EXCEPT !.pc = "saveKilled",
           !.svcs = [r \in RunRoute |-> IF r \in Runs(c) THEN NoService
                                       ELSE servicesFile[r]]])
    /\ UNCHANGED <<workerVars, serving, files, last, overlapped, kills>>

SaveKilled(c) ==
    /\ At(c, "saveKilled")
    /\ servicesFile' = cmd[c].svcs
    /\ End(c, "done")
    /\ UNCHANGED <<workerVars, serviceVars, tunnelsFile, history>>

-----------------------------------------------------------------------------
(* cmdStop: the route itself or, for a service as a whole, all of its      *)
(* paths.  Whose manifest a tunnel is makes no difference.                 *)
ToStop(r) ==
    IF r \in Records THEN {r}
    ELSE {q \in Records : r[2] = Root /\ q[1] = r[1]}

StopRoute(c) ==
    /\ At(c, "stop")
    /\ \E r \in cmd[c].todo :
          /\ ToStop(r) # {}
          /\ StopKeys(c, ToStop(r), "saveStop")
    /\ UNCHANGED <<owner, worker, job, linked, serviceVars, files, history>>

NothingToStop(c) ==
    /\ At(c, "stop") /\ \A r \in cmd[c].todo : ToStop(r) = {}
    /\ End(c, "failed")
    /\ UNCHANGED <<workerVars, serviceVars, files, history>>

SaveStop(c) ==
    /\ At(c, "saveStop")
    /\ tunnelsFile' = cmd[c].tuns
    /\ End(c, "done")
    /\ UNCHANGED <<workerVars, serviceVars, servicesFile, history>>

-----------------------------------------------------------------------------
(* Ctrl-C ends a command at once, except that a foreground `up` catches it *)
(* from waitForeground on.  SIGKILL ends it anywhere.                      *)
Interrupt(c) ==
    /\ Running(c) /\ kills < MaxKills
    /\ cmd[c].op = "up" => cmd[c].pc \in BringUp
    /\ End(c, "killed")
    /\ kills' = kills + 1
    /\ UNCHANGED <<workerVars, serviceVars, files, last, overlapped, late>>

Kill(c) ==
    /\ Running(c) /\ kills < MaxKills
    /\ End(c, "killed")
    /\ kills' = kills + 1
    /\ UNCHANGED <<workerVars, serviceVars, files, last, overlapped, late>>

(* The processes of a service end, or only the one that listens.           *)
ServiceExits(s) ==
    /\ service[s] \notin {"unborn", "dead"}
    /\ \E st \in {"dead", Silent(service[s])} :
          service' = [service EXCEPT ![s] = st]
    /\ StillLate
    /\ UNCHANGED <<workerVars, serving, files, cmd, last, overlapped, kills>>

(* One of those that are left listens: a dev server is started again, a    *)
(* slow one is ready after all.                                            *)
ListensAgain(s) ==
    /\ Restarting /\ \A x \in Service : ~Listens(x, port[s])
    /\ \/ service[s] = "quiet" /\ service' = [service EXCEPT ![s] = "up"]
       \/ service[s] = "leftover" /\ service' = [service EXCEPT ![s] = "lingering"]
    /\ late' = late \cup {s}
    /\ UNCHANGED <<workerVars, serving, files, cmd, last, overlapped, kills>>

CommandStep(c) ==
    \/ LoadServices(c) \/ KillOld(c) \/ StopOld(c) \/ SaveStopped(c) \/ Reclaim(c)
    \/ SpawnService(c) \/ SpawnFails(c) \/ SaveServices(c)
    \/ Open(c) \/ OpenFails(c) \/ SaveOne(c) \/ Finish(c)
    \/ Wake(c) \/ ChildExits(c)
    \/ StopTunnels(c) \/ SaveTorn(c) \/ KillServices(c) \/ SaveKilled(c)
    \/ StopRoute(c) \/ NothingToStop(c) \/ SaveStop(c)

Next ==
    \/ \E c \in Command :
          \/ BeginUp(c) \/ BeginDown(c) \/ BeginStart(c) \/ BeginStop(c)
          \/ CommandStep(c)
          \/ Interrupt(c) \/ Kill(c)
    \/ \E s \in Service : ServiceExits(s) \/ ListensAgain(s)
    \/ WorkersNext /\ UNCHANGED <<serviceVars, files, cmd, history>>

Spec == Init /\ [][Next]_vars

-----------------------------------------------------------------------------
(* Properties                                                              *)

(* The newest command is an `up` that came through.                        *)
NewestIsUp ==
    /\ last # NoCommand
    /\ <<cmd[last].op, cmd[last].pc>> \in {<<"up", "waiting">>, <<"up -d", "done">>}

(* Hazard: a run that was killed between Spawn and SaveServices left a     *)
(* service that no file knows, and the next run starts a second one beside *)
(* it.  While commands do not overlap, after an `up` whoever listens on a  *)
(* port it pins, and has not taken it again by itself, is the service on   *)
(* record -- not an orphan, a stubborn member of an old group or somebody  *)
(* else's service (main.go:701-707).                                       *)
CleanSlate ==
    NewestIsUp /\ ~overlapped =>
        \A s \in Service, r \in Runs(last) :
            Declared[r] # AnyFree /\ Listens(s, Declared[r]) /\ s \notin late
            => serves[s] \in Runs(last) /\ servicesFile[serves[s]] = s

(* Hazard: a run that failed half-way, or a second one over a first, left  *)
(* a service or worker `down` does not find, or `start` took a route of    *)
(* the manifest.  While commands do not overlap and none is cut short,     *)
(* `down` leaves no service of its manifest with its leader alive, and no  *)
(* worker on one of its hosts -- an ad-hoc one neither -- that was not     *)
(* told to stop (main.go:1149-1172).                                       *)
DownStopsEverything ==
    /\ last # NoCommand /\ cmd[last].op = "down" /\ cmd[last].pc = "done"
    /\ kills = 0 /\ ~overlapped
    => /\ \A s \in Service : service[s] \in HasLeader => serves[s] \notin Mine(last)
       /\ \A w \in Worker :
             worker[w] \in Live /\ SameHost(job[w], last) => w \in signal

(* Hazard: two workers for one route keep taking it from each other over   *)
(* every drop -- an ad-hoc one and a manifest's, too.  While commands do   *)
(* not overlap and none is cut short, a route has at most one worker that  *)
(* was not told to stop (startOne).                                        *)
OneWorkerPerRoute ==
    kills = 0 /\ ~overlapped =>
        \A w1, w2 \in Worker :
            /\ {worker[w1], worker[w2]} \subseteq Live /\ job[w1] = job[w2]
            /\ {w1, w2} \cap signal = {}
            => w1 = w2

(* What a command may end.                                                 *)
MayStop(c, w) ==
    \/ cmd[c].op \in {"up", "up -d", "down"} /\ path[w] = cmd[c].manifest
    \/ cmd[c].op = "down" /\ path[w] = NoManifest /\ SameHost(job[w], c)
    \/ /\ cmd[c].op = "stop"
       /\ \E r \in cmd[c].todo : job[w][1] = r[1] /\ r[2] \in {Root, job[w][2]}
MayKill(c, s) ==
    serves[s] \in Mine(c) \/ \E r \in Runs(c) : port[s] = cmd[c].ports[r]

(* Hazard: with several commands at once, one acts on the records of       *)
(* another manifest, or on the wrong worker under a key that was used      *)
(* again.  Whatever overlaps, a command stops only workers of its own      *)
(* manifest -- down also ad-hoc ones on its hosts, stop only the route it  *)
(* was given -- and ends nothing of a service but of its own routes or on  *)
(* its own ports.                                                          *)
OnlyItsOwn ==
    [][\A c \in Command : cmd[c] # Idle /\ cmd'[c] # cmd[c] =>
          /\ \A w \in signal' \ signal : MayStop(c, w)
          /\ \A s \in Service :
                service[s] # "unborn" /\ service'[s] # service[s] => MayKill(c, s)]_vars
=============================================================================
