--------------------------- MODULE RelaySupervisor ---------------------------
(***************************************************************************)
(* The relay child of the helper daemon (RelaySupervisor and RunDaemon of  *)
(* src/cli/internal/helper).  Socket handlers and the watch goroutine of   *)
(* each child call Ensure under one mutex; Kill does not wait for the      *)
(* child, whose port 443 comes free only when it is gone; the daemon may   *)
(* be stopped, or die and be started again by the service manager.         *)
(***************************************************************************)
EXTENDS Naturals

CONSTANTS
    TLD, NoTLD,
    Child, NoChild,      \* child processes; an identity is used again after Wait
    Handler, Main,       \* goroutines that call Ensure: connections, RunDaemon
    MaxCrashes,          \* bound on relay children that die by themselves
    MaxErrors,           \* bound on failures of startLocked
    MaxStops,            \* bound on daemons stopped or killed
    MaxSyncs             \* bound on changes of the registry with a sync

ASSUME SupervisorAssumption ==
    /\ NoTLD \notin TLD /\ NoChild \notin Child /\ Main \notin Handler
    /\ {MaxCrashes, MaxErrors, MaxStops, MaxSyncs} \subseteq Nat

VARIABLES
    daemon,      \* "down", "booting", "up", "stopping"
    cmd, tld,    \* the supervisor's fields
    child,       \* [Child -> its process: phase, TLD, whether it was killed]
    watch,       \* [Child -> its watch goroutine: phase, TLD]
    caller,      \* [Handler and Main -> where it is, the TLD it read]
    primary,     \* PrimaryLocalTLD of the registry, NoTLD when it is empty
    crashes, errors, stops, syncs

supervisor == <<cmd, tld>>
bounds == <<crashes, errors, stops, syncs>>
vars == <<daemon, supervisor, child, watch, caller, primary, bounds>>

Caller == Handler \cup {Main}
ChildState == [phase : {"none", "starting", "serving", "exited"},
               tld : TLD \cup {NoTLD}, killed : BOOLEAN]
WatchState == [phase : {"none", "waiting", "sleeping"}, tld : TLD \cup {NoTLD}]
CallerState == [phase : {"idle", "reading", "ensuring"}, tld : TLD \cup {NoTLD}]

NoProcess == [phase |-> "none", tld |-> NoTLD, killed |-> FALSE]
NoWatch == [phase |-> "none", tld |-> NoTLD]
NoCall == [phase |-> "idle", tld |-> NoTLD]

Init ==
    /\ daemon = "down"
    /\ cmd = NoChild /\ tld = NoTLD
    /\ child = [c \in Child |-> NoProcess]
    /\ watch = [c \in Child |-> NoWatch]
    /\ caller = [k \in Caller |-> NoCall]
    /\ primary \in TLD \cup {NoTLD}
    /\ crashes = 0 /\ errors = 0 /\ stops = 0 /\ syncs = 0

Lives(c) == child[c].phase \in {"starting", "serving"}
HoldsPort(c) == child[c].phase = "serving"
Unused(c) == child[c].phase \in {"none", "exited"} /\ watch[c].phase = "none"

-----------------------------------------------------------------------------
(* Ensure, whose body runs under the mutex.  w is watch as the caller      *)
(* leaves it: a watch goroutine ends with its call.                        *)

(* Mutant: the child is forgotten and left alone.                          *)
Forgotten(ch) == ch

(* stopLocked: the child is sent SIGKILL and not waited for.               *)
Stopped(ch) == IF cmd = NoChild THEN ch ELSE [ch EXCEPT ![cmd].killed = TRUE]

(* startLocked and the goroutine of the new child.                         *)
Starts(t, w) ==
    \E c \in Child :
        /\ Unused(c)
        /\ child' = [Stopped(child) EXCEPT ![c] =
                        [phase |-> "starting", tld |-> t, killed |-> FALSE]]
        /\ watch' = [w EXCEPT ![c] = [phase |-> "waiting", tld |-> t]]
        /\ cmd' = c /\ tld' = t
        /\ UNCHANGED errors

(* startLocked fails, on the environment, the log file or the exec.        *)
StartFails(w) ==
    /\ errors < MaxErrors /\ errors' = errors + 1
    /\ child' = Stopped(child)
    /\ watch' = w
    /\ cmd' = NoChild
    /\ UNCHANGED tld

(* Mutant: the child is replaced whatever it serves.                       *)
EnsureAlways(t, w) == Starts(t, w) \/ StartFails(w)

Ensure(t, w) ==
    \/ /\ cmd # NoChild /\ tld = t
       /\ watch' = w
       /\ UNCHANGED <<supervisor, child, errors>>
    \/ /\ ~(cmd # NoChild /\ tld = t)
       /\ Starts(t, w) \/ StartFails(w)

-----------------------------------------------------------------------------
(* Callers of Ensure: RunDaemon once at its start, and a connection each   *)
(* time a CLI syncs or asks for the relay.                                 *)

(* A CLI registers or forgets a project and connects.                      *)
Sync(h) ==
    /\ daemon \in {"up", "stopping"}
    /\ caller[h].phase = "idle"
    /\ syncs < MaxSyncs /\ syncs' = syncs + 1
    /\ primary' \in TLD \cup {NoTLD}
    /\ caller' = [caller EXCEPT ![h].phase = "reading"]
    /\ UNCHANGED <<daemon, supervisor, child, watch, crashes, errors, stops>>

(* primaryTLD; with no project registered there is nothing to ensure.      *)
Returns(k) == daemon' = IF k = Main THEN "up" ELSE daemon

ReadPrimary(k) ==
    /\ caller[k].phase = "reading"
    /\ IF primary = NoTLD
       THEN caller' = [caller EXCEPT ![k] = NoCall] /\ Returns(k)
       ELSE /\ caller' = [caller EXCEPT ![k] = [phase |-> "ensuring", tld |-> primary]]
            /\ UNCHANGED daemon
    /\ UNCHANGED <<supervisor, child, watch, primary, bounds>>

CallEnsure(k) ==
    /\ caller[k].phase = "ensuring"
    /\ Ensure(caller[k].tld, watch)
    /\ caller' = [caller EXCEPT ![k] = NoCall]
    /\ Returns(k)
    /\ UNCHANGED <<primary, crashes, stops, syncs>>

-----------------------------------------------------------------------------
(* The children.                                                           *)

(* The relay listens on port 443, or finds it taken and exits.             *)
Bind(c) ==
    /\ child[c].phase = "starting" /\ ~child[c].killed
    /\ child' = [child EXCEPT ![c].phase =
                    IF \E d \in Child : HoldsPort(d) THEN "exited" ELSE "serving"]
    /\ UNCHANGED <<daemon, supervisor, watch, caller, primary, bounds>>

KillArrives(c) ==
    /\ Lives(c) /\ child[c].killed
    /\ child' = [child EXCEPT ![c].phase = "exited"]
    /\ UNCHANGED <<daemon, supervisor, watch, caller, primary, bounds>>

ChildCrashes(c) ==
    /\ Lives(c) /\ ~child[c].killed
    /\ crashes < MaxCrashes /\ crashes' = crashes + 1
    /\ child' = [child EXCEPT ![c].phase = "exited"]
    /\ UNCHANGED <<daemon, supervisor, watch, caller, primary, errors, stops, syncs>>

-----------------------------------------------------------------------------
(* watch                                                                   *)

(* Mutant: cmd is cleared before it is compared, and no restart follows.   *)
WaitClearsFirst(c) ==
    /\ watch[c].phase = "waiting" /\ child[c].phase = "exited"
    /\ cmd' = IF cmd = c THEN NoChild ELSE cmd
    /\ watch' = [watch EXCEPT ![c] = NoWatch]
    /\ UNCHANGED <<daemon, tld, child, caller, primary, bounds>>

(* Mutant: a child that died stays the current one.                        *)
WaitKeepsChild(c) ==
    /\ watch[c].phase = "waiting" /\ child[c].phase = "exited"
    /\ watch' = [watch EXCEPT ![c] = IF cmd = c THEN [@ EXCEPT !.phase = "sleeping"]
                                              ELSE NoWatch]
    /\ UNCHANGED <<daemon, supervisor, child, caller, primary, bounds>>

WaitReturns(c) ==
    /\ watch[c].phase = "waiting" /\ child[c].phase = "exited"
    /\ IF cmd = c
       THEN /\ cmd' = NoChild
            /\ watch' = [watch EXCEPT ![c].phase = "sleeping"]
       ELSE /\ watch' = [watch EXCEPT ![c] = NoWatch]
            /\ UNCHANGED cmd
    /\ UNCHANGED <<daemon, tld, child, caller, primary, bounds>>

(* The two seconds are over.                                               *)
Wakes(c) ==
    /\ watch[c].phase = "sleeping"
    /\ Ensure(watch[c].tld, [watch EXCEPT ![c] = NoWatch])
    /\ UNCHANGED <<daemon, caller, primary, crashes, stops, syncs>>

-----------------------------------------------------------------------------
(* The daemon process.                                                     *)

(* ReclaimPort443 kills the listener an earlier daemon left.               *)
Boot ==
    /\ daemon = "down"
    /\ daemon' = "booting"
    /\ child' = [c \in Child |-> IF HoldsPort(c) THEN [child[c] EXCEPT !.killed = TRUE]
                                                ELSE child[c]]
    /\ caller' = [caller EXCEPT ![Main].phase = "reading"]
    /\ UNCHANGED <<supervisor, watch, primary, bounds>>

(* SIGTERM: relay.Stop, while handlers and watch goroutines still run.     *)
Stop ==
    /\ daemon = "up" /\ stops < MaxStops /\ stops' = stops + 1
    /\ daemon' = "stopping"
    /\ child' = Stopped(child)
    /\ cmd' = NoChild
    /\ UNCHANGED <<tld, watch, caller, primary, crashes, errors, syncs>>

(* The process ends, its goroutines with it; the children do not.          *)
Ends ==
    /\ daemon' = "down"
    /\ cmd' = NoChild /\ tld' = NoTLD
    /\ watch' = [c \in Child |-> NoWatch]
    /\ caller' = [k \in Caller |-> NoCall]
    /\ UNCHANGED <<child, primary, crashes, errors, syncs>>

Exit == daemon = "stopping" /\ Ends /\ UNCHANGED stops

Killed ==
    /\ daemon \in {"booting", "up"} /\ stops < MaxStops /\ stops' = stops + 1
    /\ Ends

-----------------------------------------------------------------------------
ChildStep(c) == Bind(c) \/ KillArrives(c) \/ WaitReturns(c) \/ Wakes(c)
CallerStep(k) == ReadPrimary(k) \/ CallEnsure(k)

Next ==
    \/ \E h \in Handler : Sync(h)
    \/ \E k \in Caller : CallerStep(k)
    \/ \E c \in Child : ChildStep(c) \/ ChildCrashes(c)
    \/ Boot \/ Stop \/ Exit \/ Killed

Spec == Init /\ [][Next]_vars

(* Goroutines and processes run; Kill, Bind and the sleep take finite      *)
(* time; the service manager starts the daemon.                            *)
FairSpec ==
    /\ Spec
    /\ \A k \in Caller : WF_vars(ReadPrimary(k)) /\ WF_vars(CallEnsure(k))
    /\ \A c \in Child :
          /\ WF_vars(Bind(c)) /\ WF_vars(KillArrives(c))
          /\ WF_vars(WaitReturns(c)) /\ WF_vars(Wakes(c))
    /\ WF_vars(Boot) /\ WF_vars(Exit)

-----------------------------------------------------------------------------
(* Properties                                                              *)

(* The supervisor's TLD is the one its child was started for.              *)
SupervisorTypeOK ==
    /\ daemon \in {"down", "booting", "up", "stopping"}
    /\ cmd \in Child \cup {NoChild} /\ tld \in TLD \cup {NoTLD}
    /\ child \in [Child -> ChildState]
    /\ watch \in [Child -> WatchState]
    /\ caller \in [Caller -> CallerState]
    /\ primary \in TLD \cup {NoTLD}
    /\ crashes \in 0..MaxCrashes /\ errors \in 0..MaxErrors
    /\ stops \in 0..MaxStops /\ syncs \in 0..MaxSyncs
    /\ cmd # NoChild => child[cmd].tld = tld

(* Hazard: a child that is replaced, dies and is replaced again while its  *)
(* predecessors' goroutines still run ends up with nobody waiting for it.  *)
(* The current child always has a goroutine that waits for its exit and    *)
(* will restart it for the same TLD (relay.go:35-46, 120-130).             *)
CurrentIsWatched ==
    cmd # NoChild => watch[cmd] = [phase |-> "waiting", tld |-> tld]

(* Hazard: overlapping calls of Ensure, from handlers and from goroutines  *)
(* that wake from their sleep, leave two relays that fight for port 443.   *)
(* Of the children this daemon started, every one that still runs and was  *)
(* not killed is the current one.                                          *)
NoRivals ==
    \A c \in Child :
        Lives(c) /\ ~child[c].killed /\ watch[c].phase # "none" => c = cmd

(* Hazard: a CLI that syncs, or a goroutine that wakes after someone else  *)
(* has restarted the relay, cuts the connections of a relay that was fine. *)
(* A child is replaced only by one that serves another TLD ("a no-op when  *)
(* a child is already running for the same tld", relay.go:33-34).          *)
NoNeedlessRestart ==
    [][\A c \in Child :
          /\ child[c].phase = "serving" /\ ~child[c].killed /\ child'[c].killed
          /\ cmd = c /\ cmd' # NoChild
          => child'[cmd'].tld # child[c].tld]_vars

(* Hazard: a child that dies of itself, or because its killed predecessor  *)
(* still held the port, is not brought back.  While the daemon stays up    *)
(* and no start fails, a relay that was started ends up serving; it may be *)
(* one an earlier daemon left, started too late for ReclaimPort443.        *)
KeepsServing ==
    daemon = "up" /\ cmd # NoChild
        ~> \/ daemon # "up" \/ errors > 0
           \/ \E c \in Child : HoldsPort(c) /\ (c = cmd \/ watch[c].phase = "none")
=============================================================================
