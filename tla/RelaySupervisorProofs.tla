------------------------ MODULE RelaySupervisorProofs ------------------------
(***************************************************************************)
(* Proofs about RelaySupervisor for any number of children, handlers and   *)
(* TLDs.  Whatever the order of the calls of Ensure, the deaths and the    *)
(* restarts, the current child is watched and has no rival.                *)
(***************************************************************************)
EXTENDS RelaySupervisor, TLAPS

(* A daemon that is down has no goroutines, and so no current child.       *)
DownIsQuiet ==
    daemon = "down" =>
        /\ cmd = NoChild
        /\ \A c \in Child : watch[c].phase = "none"
        /\ \A k \in Caller : caller[k].phase = "idle"

IInv == SupervisorTypeOK /\ CurrentIsWatched /\ NoRivals /\ DownIsQuiet

(* What Ensure works on.                                                   *)
Supervised ==
    /\ cmd \in Child \cup {NoChild} /\ tld \in TLD \cup {NoTLD}
    /\ child \in [Child -> ChildState]
    /\ watch \in [Child -> WatchState]
    /\ errors \in 0..MaxErrors
    /\ cmd # NoChild => child[cmd].tld = tld
    /\ CurrentIsWatched
    /\ NoRivals

-----------------------------------------------------------------------------
(* Init.                                                                   *)
LEMMA InitIInv == Init => IInv
  BY SupervisorAssumption
  DEF Init, IInv, SupervisorTypeOK, CurrentIsWatched, NoRivals, DownIsQuiet, Lives,
      NoProcess, NoWatch, NoCall, ChildState, WatchState, CallerState, Caller

(* The caller of Ensure leaves every goroutine as it is, or ends its own,  *)
(* which sleeps.                                                           *)
Leaves(w) ==
    \/ w = watch
    \/ \E s \in Child : watch[s].phase = "sleeping" /\ w = [watch EXCEPT ![s] = NoWatch]

(* stopLocked: what changes is that the current child is killed.           *)
LEMMA StoppedChildren ==
  ASSUME Supervised
  PROVE  /\ Stopped(child) \in [Child -> ChildState]
         /\ \A c \in Child :
               /\ Stopped(child)[c].phase = child[c].phase
               /\ Stopped(child)[c].tld = child[c].tld
               /\ c = cmd => Stopped(child)[c].killed
               /\ c # cmd => Stopped(child)[c] = child[c]
  BY SupervisorAssumption DEF Supervised, Stopped, ChildState

(* A start kills the old child and waits for the new one.                  *)
LEMMA StartsKeepsSupervised ==
  ASSUME Supervised, NEW t \in TLD \cup {NoTLD}, NEW w, Leaves(w), Starts(t, w)
  PROVE  Supervised'
<1>1. w \in [Child -> WatchState]
  BY DEF Leaves, Supervised, WatchState, NoWatch
<1>2. PICK c \in Child : /\ Unused(c)
                         /\ child' = [Stopped(child) EXCEPT ![c] =
                              [phase |-> "starting", tld |-> t, killed |-> FALSE]]
                         /\ watch' = [w EXCEPT ![c] = [phase |-> "waiting", tld |-> t]]
                         /\ cmd' = c /\ tld' = t
                         /\ UNCHANGED errors
  BY DEF Starts
<1>3. /\ cmd' \in Child /\ cmd' # NoChild /\ tld' \in TLD \cup {NoTLD}
      /\ child' \in [Child -> ChildState] /\ watch' \in [Child -> WatchState]
      /\ errors' \in 0..MaxErrors
      /\ child'[c].tld = t
      /\ watch'[c] = [phase |-> "waiting", tld |-> t]
  BY <1>1, <1>2, StoppedChildren, SupervisorAssumption DEF Supervised, ChildState, WatchState
<1>4. NoRivals'
  <2> SUFFICES ASSUME NEW d \in Child, d # c, Lives(d)', ~child'[d].killed,
                      watch'[d].phase # "none"
               PROVE  FALSE
    BY <1>2 DEF NoRivals
  <2>1. child'[d] = Stopped(child)[d] /\ watch'[d] = w[d]
    BY <1>1, <1>2, StoppedChildren
  <2>2. d # cmd /\ Lives(d) /\ ~child[d].killed
    BY <2>1, StoppedChildren DEF Lives
  <2>3. watch[d].phase # "none"
    BY <2>1 DEF Leaves, Supervised, NoWatch
  <2> QED BY <2>2, <2>3 DEF Supervised, NoRivals
<1> QED BY <1>2, <1>3, <1>4 DEF Supervised, CurrentIsWatched

(* A failed start kills the old child all the same.                        *)
LEMMA StartFailsKeepsSupervised ==
  ASSUME Supervised, NEW w, Leaves(w), StartFails(w)
  PROVE  Supervised'
<1>1. w \in [Child -> WatchState]
  BY DEF Leaves, Supervised, WatchState, NoWatch
<1>2. NoRivals'
  <2> SUFFICES ASSUME NEW d \in Child, Lives(d)', ~child'[d].killed, watch'[d].phase # "none"
               PROVE  FALSE
    BY DEF NoRivals
  <2>1. d # cmd /\ Lives(d) /\ ~child[d].killed
    BY StoppedChildren DEF StartFails, Lives
  <2>2. watch[d].phase # "none"
    BY DEF Leaves, Supervised, NoWatch, StartFails
  <2> QED BY <2>1, <2>2 DEF Supervised, NoRivals
<1> QED BY <1>1, <1>2, StoppedChildren, SupervisorAssumption
        DEF Supervised, CurrentIsWatched, StartFails

(* Ensure keeps the current child watched and without rivals.              *)
LEMMA EnsureKeepsSupervised ==
  ASSUME Supervised, NEW t \in TLD \cup {NoTLD}, NEW w, Leaves(w), Ensure(t, w)
  PROVE  Supervised'
<1>1. CASE cmd # NoChild /\ tld = t /\ watch' = w /\ UNCHANGED <<supervisor, child, errors>>
  <2>1. watch' \in [Child -> WatchState]
    BY <1>1 DEF Leaves, Supervised, WatchState, NoWatch
  <2>2. watch'[cmd] = watch[cmd]
    BY <1>1 DEF Leaves, Supervised, CurrentIsWatched
  <2>3. NoRivals'
    BY <1>1 DEF Leaves, Supervised, NoRivals, Lives, NoWatch, supervisor
  <2> QED BY <1>1, <2>1, <2>2, <2>3 DEF Supervised, CurrentIsWatched, supervisor
<1>2. CASE Starts(t, w)
  BY <1>2, StartsKeepsSupervised
<1>3. CASE StartFails(w)
  BY <1>3, StartFailsKeepsSupervised
<1> QED BY <1>1, <1>2, <1>3 DEF Ensure

-----------------------------------------------------------------------------
(* Every step keeps IInv.                                                  *)
LEMMA StepIInv == IInv /\ [Next]_vars => IInv'
<1> SUFFICES ASSUME IInv, [Next]_vars PROVE IInv'
  OBVIOUS
<1> USE DEF IInv
<1>0. Supervised
  BY DEF Supervised, SupervisorTypeOK
<1>1. ASSUME NEW h \in Handler, Sync(h) PROVE IInv'
  BY <1>1, SupervisorAssumption
  DEF Sync, SupervisorTypeOK, CurrentIsWatched, NoRivals, DownIsQuiet, Lives, supervisor,
      Caller, CallerState
<1>2. ASSUME NEW k \in Caller, ReadPrimary(k) PROVE IInv'
  BY <1>2
  DEF ReadPrimary, Returns, SupervisorTypeOK, CurrentIsWatched, NoRivals, DownIsQuiet, Lives,
      supervisor, bounds, CallerState, NoCall
<1>3. ASSUME NEW k \in Caller, CallEnsure(k) PROVE IInv'
  <2>1. Supervised'
    BY <1>0, <1>3, EnsureKeepsSupervised
    DEF CallEnsure, SupervisorTypeOK, CallerState, Leaves
  <2>2. caller' \in [Caller -> CallerState] /\ daemon' \in {"booting", "up", "stopping"}
    BY <1>3 DEF CallEnsure, Returns, SupervisorTypeOK, CallerState, NoCall, DownIsQuiet
  <2> QED BY <1>3, <2>1, <2>2 DEF CallEnsure, Supervised, SupervisorTypeOK, DownIsQuiet
<1>4. ASSUME NEW c \in Child, Bind(c) PROVE IInv'
  BY <1>4
  DEF Bind, HoldsPort, SupervisorTypeOK, CurrentIsWatched, NoRivals, DownIsQuiet, Lives,
      supervisor, bounds, ChildState
<1>5. ASSUME NEW c \in Child, KillArrives(c) PROVE IInv'
  BY <1>5
  DEF KillArrives, SupervisorTypeOK, CurrentIsWatched, NoRivals, DownIsQuiet, Lives,
      supervisor, bounds, ChildState
<1>6. ASSUME NEW c \in Child, WaitReturns(c) PROVE IInv'
  BY <1>6, SupervisorAssumption
  DEF WaitReturns, SupervisorTypeOK, CurrentIsWatched, NoRivals, DownIsQuiet, Lives,
      bounds, WatchState, NoWatch
<1>7. ASSUME NEW c \in Child, Wakes(c) PROVE IInv'
  <2>1. Supervised'
    BY <1>0, <1>7, EnsureKeepsSupervised DEF Wakes, SupervisorTypeOK, WatchState, Leaves
  <2> QED BY <1>7, <2>1 DEF Wakes, Supervised, SupervisorTypeOK, DownIsQuiet
<1>8. ASSUME NEW c \in Child, ChildCrashes(c) PROVE IInv'
  BY <1>8, SupervisorAssumption
  DEF ChildCrashes, SupervisorTypeOK, CurrentIsWatched, NoRivals, DownIsQuiet, Lives,
      supervisor, ChildState
<1>9. CASE Boot
  <2>1. /\ child' \in [Child -> ChildState]
        /\ \A c \in Child : /\ child'[c].phase = child[c].phase
                            /\ child'[c].tld = child[c].tld
                            /\ child[c].killed => child'[c].killed
    BY <1>9 DEF Boot, SupervisorTypeOK, ChildState
  <2>2. caller' \in [Caller -> CallerState]
    BY <1>9 DEF Boot, SupervisorTypeOK, CallerState, Caller
  <2>3. NoRivals'
    BY <1>9, <2>1 DEF Boot, NoRivals, Lives, supervisor
  <2> QED BY <1>9, <2>1, <2>2, <2>3
          DEF Boot, SupervisorTypeOK, CurrentIsWatched, DownIsQuiet, supervisor, bounds
<1>10. CASE Stop
  <2>1. Stopped(child) \in [Child -> ChildState]
    BY <1>0, StoppedChildren
  <2>2. NoRivals'
    BY <1>0, <1>10, StoppedChildren DEF Stop, NoRivals, Lives
  <2> QED BY <1>10, <2>1, <2>2, SupervisorAssumption
          DEF Stop, SupervisorTypeOK, CurrentIsWatched, DownIsQuiet
<1>11. CASE Exit \/ Killed
  BY <1>11, SupervisorAssumption
  DEF Exit, Killed, Ends, SupervisorTypeOK, CurrentIsWatched, NoRivals, DownIsQuiet,
      NoWatch, NoCall, WatchState, CallerState
<1>12. CASE UNCHANGED vars
  BY <1>12
  DEF vars, supervisor, bounds, SupervisorTypeOK, CurrentIsWatched, NoRivals, DownIsQuiet, Lives
<1> QED
  BY <1>1, <1>2, <1>3, <1>4, <1>5, <1>6, <1>7, <1>8, <1>9, <1>10, <1>11, <1>12
  DEF Next, CallerStep, ChildStep

LEMMA SpecIInv == Spec => []IInv
  BY InitIInv, StepIInv, PTL DEF Spec

(* Types, and the supervisor's TLD is its child's.                         *)
THEOREM SupervisorTypes == Spec => []SupervisorTypeOK
  BY SpecIInv, PTL DEF IInv

(* The current child always has a goroutine that waits for it.             *)
THEOREM SupervisorWatches == Spec => []CurrentIsWatched
  BY SpecIInv, PTL DEF IInv

(* No two relays of one daemon run without one of them being killed.       *)
THEOREM SupervisorHasNoRivals == Spec => []NoRivals
  BY SpecIInv, PTL DEF IInv

-----------------------------------------------------------------------------
(* A call of Ensure that replaces a child starts one for another TLD.      *)
LEMMA EnsureReplacesOtherTLD ==
  ASSUME Supervised, NEW t \in TLD \cup {NoTLD}, NEW w, Ensure(t, w),
         cmd \in Child, ~child[cmd].killed, child'[cmd].killed, cmd' # NoChild
  PROVE  child'[cmd'].tld # child[cmd].tld
<1>1. CASE Starts(t, w) /\ tld # t
  <2>1. cmd' \in Child /\ child'[cmd'].tld = t
    BY <1>1, StoppedChildren DEF Starts
  <2> QED BY <1>1, <2>1, SupervisorAssumption DEF Supervised
<1> QED BY <1>1, SupervisorAssumption DEF Ensure, StartFails

(* A relay that serves is replaced only for another TLD.                   *)
THEOREM SupervisorNoNeedlessRestart == Spec => NoNeedlessRestart
<1> DEFINE Replaces(c) ==
        /\ child[c].phase = "serving" /\ ~child[c].killed /\ child'[c].killed
        /\ cmd = c /\ cmd' # NoChild
<1>1. ASSUME IInv, [Next]_vars, NEW c \in Child, Replaces(c)
      PROVE  child'[cmd'].tld # child[c].tld
  <2>0. Supervised
    BY <1>1 DEF IInv, Supervised, SupervisorTypeOK
  <2>1. ASSUME NEW k \in Caller, CallEnsure(k) PROVE child'[cmd'].tld # child[c].tld
    BY <1>1, <2>0, <2>1, EnsureReplacesOtherTLD
    DEF CallEnsure, IInv, SupervisorTypeOK, CallerState
  <2>2. ASSUME NEW d \in Child, Wakes(d) PROVE child'[cmd'].tld # child[c].tld
    BY <1>1, <2>0, <2>2, EnsureReplacesOtherTLD
    DEF Wakes, IInv, SupervisorTypeOK, WatchState
  <2>3. CASE Boot
    BY <1>1, <2>3, SupervisorAssumption DEF Boot, IInv, DownIsQuiet
  <2>4. CASE Stop \/ Exit \/ Killed
    BY <1>1, <2>4 DEF Stop, Exit, Killed, Ends
  <2>5. CASE \E h \in Handler : Sync(h)
    BY <1>1, <2>5 DEF Sync
  <2>6. CASE \E k \in Caller : ReadPrimary(k)
    BY <1>1, <2>6 DEF ReadPrimary
  <2>7. ASSUME NEW d \in Child, Bind(d) \/ KillArrives(d) \/ ChildCrashes(d) \/ WaitReturns(d)
        PROVE  FALSE
    BY <1>1, <2>7 DEF Bind, KillArrives, ChildCrashes, WaitReturns, IInv, SupervisorTypeOK, ChildState
  <2>8. CASE UNCHANGED vars
    BY <1>1, <2>8 DEF vars
  <2> QED BY <1>1, <2>1, <2>2, <2>3, <2>4, <2>5, <2>6, <2>7, <2>8
          DEF Next, CallerStep, ChildStep
<1>2. IInv /\ [Next]_vars =>
        [\A c \in Child : Replaces(c) => child'[cmd'].tld # child[c].tld]_vars
  BY <1>1
<1> QED BY <1>2, SpecIInv, PTL DEF Spec, NoNeedlessRestart
=============================================================================
