--------------------------- MODULE LifecycleProofs ---------------------------
(***************************************************************************)
(* Proofs about TunnelWorkers, TunnelStreams and Lifecycle for any number  *)
(* of hosts, workers, streams, services, manifests and commands.  Workers  *)
(* claim and give up routes as RouteDirectory has it; a live session is    *)
(* the owner of its worker's route; a stream is with that owner, and ends  *)
(* once an end is closed; a worker that lost its session comes back and    *)
(* one that is told to stop does not.  Commands, however they overlap and  *)
(* wherever they are cut short, end nothing but what is theirs; and        *)
(* commands that follow each other keep one worker per route, leave no     *)
(* service behind that services.json does not know, and with down nothing  *)
(* at all.                                                                 *)
(***************************************************************************)
EXTENDS Lifecycle, TunnelStreams, FiniteSetTheorems, TLAPS

-----------------------------------------------------------------------------
(* The workers.                                                            *)

(* A route is owned by a worker that was started for it, which may be gone *)
(* or have lost its session.                                               *)
OwnersJob == \A r \in Route : owner[r] # NoWorker => job[owner[r]] = r

(* Only a worker that holds a tunnel has a live session.                   *)
LinkedHolds == \A w \in linked : worker[w] = "holding"

WorkersInv == WorkersTypeOK /\ OwnersJob /\ LinkedHolds /\ LinkedIsRouted

(* RouteDirectory with workers for entries; nobody resolves here.          *)
Directory == INSTANCE RouteDirectory
    WITH Path <- {}, Entry <- Worker, NoEntry <- NoWorker,
         Length <- [p \in {} |-> 0], Under <- [p \in {} |-> {}]

(* The workers' invariant: initially, and over their steps.                *)
LEMMA InitWorkersInv == InitWorkers => WorkersInv
  BY WorkersAssumption
  DEF InitWorkers, WorkersInv, WorkersTypeOK, OwnersJob, LinkedHolds,
      LinkedIsRouted, Phases

(* A worker that is started has no session and owns nothing.               *)
LEMMA SpawnKeepsWorkers ==
  ASSUME WorkersInv, NEW w \in Worker, NEW r \in Route, Spawn(w, r)
  PROVE  WorkersInv'
<1>1. job[w] = NoRoute /\ w \notin linked
  BY DEF WorkersInv, WorkersTypeOK, LinkedHolds, Spawn
<1>2. \A x \in Route : owner[x] # w
  BY <1>1, WorkersAssumption DEF WorkersInv, OwnersJob, Route
<1>3. WorkersTypeOK'
  BY WorkersAssumption DEF WorkersInv, WorkersTypeOK, Spawn, Becomes, Phases, Route
<1>4. OwnersJob'
  BY <1>2 DEF WorkersInv, WorkersTypeOK, OwnersJob, Spawn
<1>5. LinkedHolds' /\ LinkedIsRouted'
  BY <1>1 DEF WorkersInv, WorkersTypeOK, LinkedHolds, LinkedIsRouted, Spawn, Becomes
<1> QED BY <1>3, <1>4, <1>5 DEF WorkersInv

(* Signals change nothing else.                                            *)
LEMMA SignalKeepsWorkers ==
  ASSUME WorkersInv, signal' \subseteq Worker,
         UNCHANGED <<owner, worker, job, linked>>
  PROVE  WorkersInv'
  BY DEF WorkersInv, WorkersTypeOK, OwnersJob, LinkedHolds, LinkedIsRouted

(* A tunnel that connects takes a route nobody owns.                       *)
LEMMA ConnectsKeepsWorkers ==
  ASSUME WorkersInv, NEW w \in Worker, worker[w] \in {"dialing", "retrying"},
         Connects(w), Becomes(w, "holding"), UNCHANGED <<job, signal>>
  PROVE  WorkersInv'
<1>1. job[w] \in Route
  BY WorkersAssumption DEF WorkersInv, WorkersTypeOK
<1>2. WorkersTypeOK'
  BY <1>1 DEF WorkersInv, WorkersTypeOK, Connects, Becomes, Phases
<1>3. OwnersJob'
  BY <1>1 DEF WorkersInv, WorkersTypeOK, OwnersJob, Connects
<1>4. LinkedHolds'
  BY DEF WorkersInv, WorkersTypeOK, LinkedHolds, Connects, Becomes
<1>5. LinkedIsRouted'
  BY <1>1, WorkersAssumption DEF WorkersInv, WorkersTypeOK, LinkedIsRouted, Connects
<1> QED BY <1>2, <1>3, <1>4, <1>5 DEF WorkersInv

(* So may one whose handshake failed on its way back.                      *)
LEMMA DialFailsKeepsWorkers ==
  ASSUME WorkersInv, NEW w \in Worker, worker[w] \in {"dialing", "retrying"},
         DialFails(w), Becomes(w, "gone") \/ UNCHANGED worker,
         UNCHANGED <<job, signal>>
  PROVE  WorkersInv'
<1>1. job[w] \in Route /\ w \notin linked
  BY WorkersAssumption DEF WorkersInv, WorkersTypeOK, LinkedHolds
<1>2. WorkersTypeOK'
  BY <1>1 DEF WorkersInv, WorkersTypeOK, DialFails, Becomes, Phases
<1>3. OwnersJob'
  BY <1>1 DEF WorkersInv, WorkersTypeOK, OwnersJob, DialFails
<1>4. LinkedHolds'
  BY <1>1 DEF WorkersInv, WorkersTypeOK, LinkedHolds, DialFails, Becomes
<1>5. LinkedIsRouted'
  BY <1>1, WorkersAssumption DEF WorkersInv, WorkersTypeOK, LinkedIsRouted, DialFails
<1> QED BY <1>2, <1>3, <1>4, <1>5 DEF WorkersInv

LEMMA WorkersNextKeepsWorkers ==
  ASSUME WorkersInv, WorkersNext
  PROVE  WorkersInv'
<1>1. ASSUME NEW w \in Worker, FirstDial(w) PROVE WorkersInv'
  BY <1>1, ConnectsKeepsWorkers, DialFailsKeepsWorkers DEF FirstDial
<1>2. ASSUME NEW w \in Worker, Redial(w) PROVE WorkersInv'
  BY <1>2, ConnectsKeepsWorkers, DialFailsKeepsWorkers DEF Redial
<1>3. ASSUME NEW w \in Worker, Notice(w) \/ Stop(w) \/ Drop(w) PROVE WorkersInv'
  BY <1>3, WorkersAssumption
  DEF Notice, Stop, Drop, Becomes, WorkersInv, WorkersTypeOK, OwnersJob,
      LinkedHolds, LinkedIsRouted, Phases, Live
<1>4. ASSUME NEW r \in Route, Release(r) PROVE WorkersInv'
  BY <1>4, WorkersAssumption
  DEF Release, WorkersInv, WorkersTypeOK, OwnersJob, LinkedHolds, LinkedIsRouted
<1>5. CASE RelayRestarts
  BY <1>5 DEF RelayRestarts, WorkersInv, WorkersTypeOK, OwnersJob, LinkedHolds,
      LinkedIsRouted
<1> QED BY <1>1, <1>2, <1>3, <1>4, <1>5 DEF WorkersNext, WorkerStep

LEMMA FreeNextKeepsWorkers == WorkersInv /\ [FreeNext]_workerVars => WorkersInv'
<1> SUFFICES ASSUME WorkersInv, [FreeNext]_workerVars PROVE WorkersInv'
  OBVIOUS
<1>1. ASSUME NEW w \in Worker, SendSignal(w) PROVE WorkersInv'
  <2>1. signal' \subseteq Worker
    BY <1>1 DEF SendSignal, WorkersInv, WorkersTypeOK
  <2> QED BY <1>1, <2>1, SignalKeepsWorkers DEF SendSignal
<1>2. CASE UNCHANGED workerVars
  BY <1>2 DEF workerVars, WorkersInv, WorkersTypeOK, OwnersJob, LinkedHolds,
      LinkedIsRouted
<1> QED BY <1>1, <1>2, WorkersNextKeepsWorkers, SpawnKeepsWorkers DEF FreeNext

(* Whatever is lost, restarted and signalled, a worker with a live session *)
(* owns its own route: no late clean-up of an older session takes it away. *)
THEOREM FreeLinkedIsRouted == FreeSpec => []LinkedIsRouted
<1>1. WorkersInv => LinkedIsRouted
  BY DEF WorkersInv
<1> QED BY <1>1, InitWorkersInv, FreeNextKeepsWorkers, PTL DEF FreeSpec

(* A step of the workers or of their environment is a step of the          *)
(* directory: a worker claims a route nobody has while it has none.        *)
LEMMA ClaimsJob ==
  ASSUME WorkersInv, NEW w \in Worker, job[w] \in Route,
         owner[job[w]] = NoWorker, owner' = [owner EXCEPT ![job[w]] = w]
  PROVE  Directory!Next
<1>1. \A r \in Route : owner[r] # w
  BY WorkersAssumption DEF WorkersInv, OwnersJob
<1>2. Directory!Claim(job[w], w)
  BY <1>1 DEF Directory!Claim, Directory!Routes, Route
<1> QED BY <1>2 DEF Directory!Next, Directory!Routes, Route

LEMMA FreeStepsClaim ==
  ASSUME WorkersInv, [FreeNext]_workerVars
  PROVE  [Directory!Next]_owner
<1>1. ASSUME NEW w \in Worker, FirstDial(w) \/ Redial(w)
      PROVE  [Directory!Next]_owner
  <2>1. job[w] \in Route
    BY <1>1, WorkersAssumption DEF FirstDial, Redial, WorkersInv, WorkersTypeOK
  <2> QED BY <1>1, <2>1, ClaimsJob DEF FirstDial, Redial, Connects, DialFails
<1>2. ASSUME NEW r \in Route, Release(r) PROVE Directory!Next
  <2>1. owner[r] \in Worker
    BY <1>2 DEF Release, WorkersInv, WorkersTypeOK
  <2> QED BY <1>2, <2>1
          DEF Release, Directory!Next, Directory!Release, Directory!Routes, Route
<1>3. CASE RelayRestarts
  BY <1>3 DEF RelayRestarts, Directory!Next, Directory!ReleaseAll,
      Directory!Routes, Route
<1>4. ASSUME NEW w \in Worker,
             \/ Notice(w) \/ Stop(w) \/ Drop(w) \/ SendSignal(w)
             \/ \E r \in Route : Spawn(w, r)
      PROVE  UNCHANGED owner
  BY <1>4 DEF Notice, Stop, Drop, SendSignal, Spawn
<1>5. CASE UNCHANGED workerVars
  BY <1>5 DEF workerVars
<1> QED BY <1>1, <1>2, <1>3, <1>4, <1>5 DEF FreeNext, WorkersNext, WorkerStep

(* What the relay keeps for the workers is RouteDirectory: a route has one *)
(* owner at a time, given up by nobody else, and no worker owns two.       *)
THEOREM WorkersImplementDirectory == FreeSpec => Directory!Spec
<1>1. InitWorkers => Directory!Init
  BY DEF InitWorkers, Directory!Init, Directory!Routes, Route
<1>2. WorkersInv /\ [FreeNext]_workerVars => [Directory!Next]_owner
  BY FreeStepsClaim
<1> QED BY <1>1, <1>2, InitWorkersInv, FreeNextKeepsWorkers, PTL
        DEF FreeSpec, Directory!Spec
-----------------------------------------------------------------------------
(* The streams.                                                            *)

(* Hazard: a request ends up with a worker that lost the route.  While the *)
(* relay holds its end of a stream, the stream's worker is connected and   *)
(* owns its route (handleTunnelRequest, Entry.OpenStream).                 *)
StreamsReachOwner ==
    \A s \in Stream : stream[s].relay =>
        LET w == stream[s].of
        IN  w \in linked /\ job[w] \in Route /\ owner[job[w]] = w

(* Hazard: a copier or handleStream closes a connection that is in use, a  *)
(* websocket or an event stream.  While the relay and the target both hold *)
(* their ends open, a stream is copied both ways (pipe).                   *)
BothWays(st) ==
    st.relay /\ st.target =>
        st.at = "piping" /\ st.up = "copying" /\ st.down = "copying"
OpenStreamsFlow == \A s \in Stream : BothWays(stream[s])

(* Hazard: a copier stays behind for ever with what it has to send.  pipe's *)
(* channel has room for whichever comes (tunnel.go:241).                   *)
Unblocked(st) == st.up # "blocked" /\ st.down # "blocked"
NoCopierBlocks == \A s \in Stream : Unblocked(stream[s])

(* How far the handler is, and what its copiers do there.                  *)
HandlerAt(st) ==
    /\ st.at = "free" => st = Free
    /\ st.at \in {"free", "backlog", "dialing"} =>
          st.up = "none" /\ st.down = "none" /\ ~st.target
    /\ st.at = "piping" => st.up # "none" /\ st.down # "none"
    /\ st.target => st.at = "piping" /\ st.up \in Busy
    /\ st.at = "returned" =>
          \/ st.up = "none" /\ st.down = "none"
          \/ /\ st.up # "none" /\ st.down # "none"
             /\ st.up = "done" \/ st.down = "done"

(* A stream is of a worker that is not gone, and what the relay holds of   *)
(* it, or has not been accepted, of one that is connected.                 *)
WorkerServes(st, wk, lk) ==
    /\ st.at # "free" => st.of \in Worker /\ wk[st.of] \in {"holding", "retrying"}
    /\ st.at = "backlog" \/ st.relay => st.of \in lk

StreamInv(st, wk, lk) ==
    /\ st \in StreamState /\ HandlerAt(st) /\ WorkerServes(st, wk, lk)
    /\ BothWays(st) /\ Unblocked(st)

StreamsInv ==
    /\ WorkersInv
    /\ stream \in [Stream -> StreamState]
    /\ \A s \in Stream : StreamInv(stream[s], worker, linked)

LEMMA FreeIsFine ==
  ASSUME NEW wk, NEW lk
  PROVE  StreamInv(Free, wk, lk)
  BY DEF StreamInv, StreamState, Free, HandlerAt, WorkerServes, BothWays, Unblocked,
         Copier, Busy

LEMMA SettledIsFine ==
  ASSUME NEW wk, NEW lk, NEW st, StreamInv(st, wk, lk)
  PROVE  StreamInv(Settled(st), wk, lk) /\ Settled(st) \in StreamState
<1>1. Settled(st) = st \/ Settled(st) = Free
  BY DEF Settled
<1>2. StreamInv(Settled(st), wk, lk)
  BY <1>1, FreeIsFine
<1> QED BY <1>2 DEF StreamInv

(* One stream takes a step, the workers none.                              *)
LEMMA TurnsKeepsStreams ==
  ASSUME StreamsInv, NEW s \in Stream, NEW st, StreamInv(st, worker, linked),
         Turns(s, st)
  PROVE  StreamsInv'
<1>1. UNCHANGED workerVars /\ worker' = worker /\ linked' = linked
  BY DEF Turns, workerVars
<1>2. WorkersInv'
  BY <1>1, FreeNextKeepsWorkers DEF StreamsInv
<1>3. StreamInv(Settled(st), worker, linked) /\ Settled(st) \in StreamState
  BY SettledIsFine
<1>4. stream' = [stream EXCEPT ![s] = Settled(st)]
  BY DEF Turns
<1>5. stream' \in [Stream -> StreamState]
  BY <1>3, <1>4 DEF StreamsInv
<1>6. ASSUME NEW t \in Stream PROVE StreamInv(stream'[t], worker, linked)
  BY <1>3, <1>4 DEF StreamsInv
<1> QED BY <1>1, <1>2, <1>5, <1>6 DEF StreamsInv

(* What the copiers have sent, by what has become of them.                 *)
LEMMA DoneCopiers ==
  ASSUME NEW st, NEW u, NEW d, st["up"] = u, st["down"] = d
  PROVE  LET S == {c \in {"up", "down"} : st[c] = "done"}
         IN  /\ u # "done" /\ d # "done" => S = {}
             /\ u = "done" /\ d # "done" => S = {"up"}
             /\ u # "done" /\ d = "done" => S = {"down"}
  OBVIOUS

LEMMA WhatIsSent ==
  ASSUME NEW s \in Stream
  PROVE  /\ stream[s].up # "done" /\ stream[s].down # "done" => Sent(s) = 0
         /\ stream[s].up # "done" \/ stream[s].down # "done" => Sent(s) \in {0, 1}
<1> DEFINE S == {c \in {"up", "down"} : stream[s][c] = "done"}
<1>1. Sent(s) = Cardinality(S)
  BY DEF Sent
<1>2. stream[s]["up"] = stream[s].up /\ stream[s]["down"] = stream[s].down
  OBVIOUS
<1>3. /\ stream[s].up # "done" /\ stream[s].down # "done" => S = {}
      /\ stream[s].up = "done" /\ stream[s].down # "done" => S = {"up"}
      /\ stream[s].up # "done" /\ stream[s].down = "done" => S = {"down"}
  BY <1>2, DoneCopiers, Zenon
<1> HIDE DEF S
<1>4. Cardinality({}) = 0
  BY FS_EmptySet
<1>5. Cardinality({"up"}) = 1 /\ Cardinality({"down"}) = 1
  BY FS_Singleton
<1> QED BY <1>1, <1>3, <1>4, <1>5

(* A copier that is still busy finds room when it ends.                    *)
LEMMA CopierIsDone ==
  ASSUME NEW s \in Stream, stream[s].up \in Busy \/ stream[s].down \in Busy
  PROVE  CopierEnd(s) = "done"
<1>1. Sent(s) \in {0, 1}
  BY WhatIsSent DEF Busy
<1>2. Sent(s) - (IF stream[s].at = "returned" THEN 1 ELSE 0) < 2
  BY <1>1
<1> QED BY <1>2 DEF CopierEnd, HasRoom

(* The steps of a stream.                                                  *)
LEMMA OpenStreamKeepsStreams ==
  ASSUME StreamsInv, NEW s \in Stream, OpenStream(s)
  PROVE  StreamsInv'
<1>1. PICK r \in Route :
        /\ owner[r] \in linked
        /\ Turns(s, [Free EXCEPT !.of = owner[r], !.at = "backlog", !.relay = TRUE])
  BY Zenon DEF OpenStream
<1> DEFINE st == [Free EXCEPT !.of = owner[r], !.at = "backlog", !.relay = TRUE]
<1>2. owner[r] \in linked
  BY <1>1
<1>3. owner[r] \in Worker /\ worker[owner[r]] = "holding"
  BY <1>2 DEF StreamsInv, WorkersInv, WorkersTypeOK, LinkedHolds
<1>4. Free.up = "none" /\ Free.down = "none" /\ Free.target = FALSE
  BY DEF Free
<1>5. Free \in StreamState
  BY FreeIsFine DEF StreamInv
<1>6. StreamInv(st, worker, linked)
  BY <1>2, <1>3, <1>4, <1>5
  DEF StreamInv, StreamState, HandlerAt, WorkerServes, BothWays, Unblocked, Copier, Busy
<1> QED BY <1>1, <1>6, TurnsKeepsStreams

LEMMA HandlerRunsKeepsStreams ==
  ASSUME StreamsInv, NEW s \in Stream, HandlerRuns(s)
  PROVE  StreamsInv'
<1> DEFINE old == stream[s]
<1>1. StreamInv(old, worker, linked) /\ old \in StreamState
  BY DEF StreamsInv
<1> USE DEF StreamInv, StreamState, HandlerAt, WorkerServes, BothWays, Unblocked, Copier,
            Busy
<1>2. CASE Accept(s)
  <2>1. StreamInv([old EXCEPT !.at = "dialing"], worker, linked)
    BY <1>1, <1>2 DEF Accept
  <2> QED BY <1>2, <2>1, TurnsKeepsStreams DEF Accept
<1>3. CASE TargetRefuses(s)
  <2>1. StreamInv([old EXCEPT !.at = "returned"], worker, linked)
    BY <1>1, <1>3 DEF TargetRefuses
  <2> QED BY <1>3, <2>1, TurnsKeepsStreams DEF TargetRefuses
<1>4. CASE DialsTarget(s)
  <2>1. StreamInv([old EXCEPT !.at = "piping", !.target = TRUE,
                              !.up = "copying", !.down = "copying"], worker, linked)
    BY <1>1, <1>4 DEF DialsTarget
  <2> QED BY <1>4, <2>1, TurnsKeepsStreams DEF DialsTarget
<1>5. CASE Returns(s)
  <2>1. old.up = "done" \/ old.down = "done"
    BY <1>5, WhatIsSent DEF Returns
  <2>2. StreamInv([old EXCEPT !.at = "returned", !.target = FALSE], worker, linked)
    BY <1>1, <1>5, <2>1 DEF Returns
  <2> QED BY <1>5, <2>2, TurnsKeepsStreams DEF Returns
<1> QED BY <1>2, <1>3, <1>4, <1>5 DEF HandlerRuns

LEMMA CopiesKeepsStreams ==
  ASSUME StreamsInv, NEW s \in Stream, Copies(s)
  PROVE  StreamsInv'
<1> DEFINE old == stream[s]
<1>1. StreamInv(old, worker, linked) /\ old \in StreamState
  BY DEF StreamsInv
<1> USE DEF StreamInv, StreamState, HandlerAt, WorkerServes, BothWays, Unblocked, Copier,
            Busy
<1>2. CASE UpEnds(s)
  <2>1. CopierEnd(s) = "done"
    BY <1>2, CopierIsDone DEF UpEnds
  <2>2. StreamInv([old EXCEPT !.up = "done", !.target = FALSE], worker, linked)
    BY <1>1, <1>2 DEF UpEnds, UpReadEnds, UpWriteFails
  <2> QED BY <1>2, <2>1, <2>2, TurnsKeepsStreams DEF UpEnds
<1>3. CASE DownEnds(s)
  <2>1. CopierEnd(s) = "done"
    BY <1>3, CopierIsDone DEF DownEnds
  <2>2. StreamInv([old EXCEPT !.down = "done"], worker, linked)
    BY <1>1, <1>3 DEF DownEnds, DownReadEnds, DownWriteFails, StreamClosed
  <2> QED BY <1>3, <2>1, <2>2, TurnsKeepsStreams DEF DownEnds
<1>4. CASE UpStalls(s) \/ UpResumes(s)
  <2>1. UpStalls(s) => StreamInv([old EXCEPT !.up = "stuck"], worker, linked)
    BY <1>1 DEF UpStalls, UpReadEnds, UpWriteFails
  <2>2. UpResumes(s) => StreamInv([old EXCEPT !.up = "copying"], worker, linked)
    BY <1>1 DEF UpResumes
  <2> QED BY <1>4, <2>1, <2>2, TurnsKeepsStreams DEF UpStalls, UpResumes
<1>5. CASE DownStalls(s) \/ DownResumes(s)
  <2>1. DownStalls(s) => StreamInv([old EXCEPT !.down = "stuck"], worker, linked)
    BY <1>1 DEF DownStalls, DownReadEnds, StreamClosed
  <2>2. DownResumes(s) => StreamInv([old EXCEPT !.down = "copying"], worker, linked)
    BY <1>1 DEF DownResumes
  <2> QED BY <1>5, <2>1, <2>2, TurnsKeepsStreams DEF DownStalls, DownResumes
<1> QED BY <1>2, <1>3, <1>4, <1>5 DEF Copies

LEMMA EndClosesKeepsStreams ==
  ASSUME StreamsInv, NEW s \in Stream, RelayCloses(s) \/ TargetCloses(s)
  PROVE  StreamsInv'
<1> DEFINE old == stream[s]
<1>1. StreamInv(old, worker, linked) /\ old \in StreamState
  BY DEF StreamsInv
<1>2. old.at # "free"
  BY <1>1 DEF RelayCloses, TargetCloses, StreamInv, HandlerAt, Free
<1>3. StreamInv([old EXCEPT !.relay = FALSE], worker, linked)
  BY <1>1, <1>2
  DEF StreamInv, StreamState, HandlerAt, WorkerServes, BothWays, Unblocked, Copier, Busy
<1>4. StreamInv([old EXCEPT !.target = FALSE], worker, linked)
  BY <1>1, <1>2
  DEF StreamInv, StreamState, HandlerAt, WorkerServes, BothWays, Unblocked, Copier, Busy
<1> QED BY <1>3, <1>4, TurnsKeepsStreams DEF RelayCloses, TargetCloses

(* A worker that holds or retries goes on doing so, or is gone.            *)
LEMMA HoldersGoOn ==
  ASSUME WorkersInv, FreeNext, NEW w \in Worker, worker[w] \in {"holding", "retrying"}
  PROVE  worker'[w] \in {"holding", "retrying", "gone"}
<1>1. ASSUME NEW v \in Worker, NEW phase \in {"holding", "retrying", "gone"},
             Becomes(v, phase)
      PROVE  worker'[w] \in {"holding", "retrying", "gone"}
  BY <1>1 DEF Becomes, WorkersInv, WorkersTypeOK
<1>2. ASSUME NEW v \in Worker, WorkerStep(v)
      PROVE  worker'[w] \in {"holding", "retrying", "gone"}
  BY <1>1, <1>2 DEF WorkerStep, FirstDial, Notice, Redial, Stop
<1>3. ASSUME NEW v \in Worker, NEW r \in Route, Spawn(v, r)
      PROVE  worker'[w] \in {"holding", "retrying", "gone"}
  BY <1>3 DEF Spawn, Becomes, WorkersInv, WorkersTypeOK
<1>4. ASSUME NEW v \in Worker, Drop(v) \/ SendSignal(v) PROVE UNCHANGED worker
  BY <1>4 DEF Drop, SendSignal
<1>5. ASSUME NEW r \in Route, Release(r) PROVE UNCHANGED worker
  BY <1>5 DEF Release
<1>6. RelayRestarts => UNCHANGED worker
  BY DEF RelayRestarts
<1> QED BY <1>2, <1>3, <1>4, <1>5, <1>6 DEF FreeNext, WorkersNext

(* The streams of a worker follow its session and its process.             *)
LEMMA FollowsKeepsStreams ==
  ASSUME StreamsInv, FreeNext, stream' = [s \in Stream |-> Follows(s)]
  PROVE  StreamsInv'
<1>1. WorkersInv'
  BY FreeNextKeepsWorkers DEF StreamsInv
<1>2. ASSUME NEW s \in Stream
      PROVE  StreamInv(Follows(s), worker', linked') /\ Follows(s) \in StreamState
  <2> DEFINE st == stream[s]
             w == st.of
  <2>1. StreamInv(st, worker, linked) /\ st \in StreamState
    BY DEF StreamsInv
  <2>2. CASE Follows(s) = Free
    BY <2>2, FreeIsFine DEF StreamInv
  <2>3. CASE st # Free /\ worker'[w] # "gone"
    <3>1. /\ w \in Worker /\ st.at # "free"
          /\ worker[w] \in {"holding", "retrying"}
      BY <2>1, <2>3 DEF StreamInv, HandlerAt, WorkerServes
    <3>2. worker'[w] \in {"holding", "retrying"}
      BY <2>3, <3>1, HoldersGoOn DEF StreamsInv
    <3>3. CASE w \in linked \ linked' /\ st.at # "backlog"
      <4> DEFINE cut == [st EXCEPT !.relay = FALSE]
      <4>1. StreamInv(cut, worker', linked')
        BY <2>1, <3>1, <3>2, <3>3
        DEF StreamInv, StreamState, HandlerAt, WorkerServes, BothWays, Unblocked, Copier, Busy
      <4>2. Follows(s) = Settled(cut)
        BY <2>3, <3>3 DEF Follows
      <4> HIDE DEF cut
      <4> QED BY <4>1, <4>2, SettledIsFine
    <3>4. CASE w \notin linked \ linked'
      <4>1. StreamInv(st, worker', linked')
        BY <2>1, <3>1, <3>2, <3>4 DEF StreamInv, WorkerServes
      <4>2. Follows(s) = st
        BY <2>3, <3>4 DEF Follows
      <4> QED BY <2>1, <4>1, <4>2
    <3> QED BY <2>2, <2>3, <3>3, <3>4 DEF Follows
  <2> QED BY <2>2, <2>3 DEF Follows
<1>3. stream' \in [Stream -> StreamState]
  BY <1>2
<1>4. \A s \in Stream : StreamInv(stream'[s], worker', linked')
  BY <1>2
<1> QED BY <1>1, <1>3, <1>4 DEF StreamsInv

LEMMA InitStreamsInv == InitStreams => StreamsInv
<1> SUFFICES ASSUME InitStreams PROVE StreamsInv
  OBVIOUS
<1>1. WorkersInv
  BY InitWorkersInv DEF InitStreams
<1>2. \A s \in Stream : stream[s] = Free
  BY DEF InitStreams
<1>3. Free \in StreamState
  BY FreeIsFine DEF StreamInv
<1>4. stream \in [Stream -> StreamState]
  BY <1>3 DEF InitStreams
<1> QED BY <1>1, <1>2, <1>4, FreeIsFine DEF StreamsInv

LEMMA NextKeepsStreams == StreamsInv /\ [StreamsNext]_streamVars => StreamsInv'
<1> SUFFICES ASSUME StreamsInv, [StreamsNext]_streamVars PROVE StreamsInv'
  OBVIOUS
<1>1. ASSUME NEW s \in Stream, StreamStep(s) PROVE StreamsInv'
  BY <1>1, OpenStreamKeepsStreams, HandlerRunsKeepsStreams, CopiesKeepsStreams,
     EndClosesKeepsStreams
  DEF StreamStep
<1>2. CASE UNCHANGED streamVars
  <2>1. UNCHANGED <<workerVars, worker, linked, stream>>
    BY <1>2 DEF streamVars, workerVars
  <2>2. WorkersInv'
    BY <2>1, FreeNextKeepsWorkers DEF StreamsInv
  <2> QED BY <2>1, <2>2 DEF StreamsInv
<1> QED BY <1>1, <1>2, FollowsKeepsStreams DEF StreamsNext

LEMMA StreamsInvariant == StreamsSpec => []StreamsInv
  BY InitStreamsInv, NextKeepsStreams, PTL DEF StreamsSpec

(* Whatever drops, restarts and is signalled under them, and whichever end *)
(* closes first: a stream the relay holds is with its route's owner; one   *)
(* that both ends hold open is copied both ways; no copier stays behind    *)
(* for want of room.                                                       *)
THEOREM StreamsAreSafe ==
  StreamsSpec => [](StreamsReachOwner /\ OpenStreamsFlow /\ NoCopierBlocks)
<1>1. StreamsInv => StreamsReachOwner /\ OpenStreamsFlow /\ NoCopierBlocks
  <2> SUFFICES ASSUME StreamsInv, NEW s \in Stream
               PROVE  /\ stream[s].relay =>
                            LET w == stream[s].of
                            IN  w \in linked /\ job[w] \in Route /\ owner[job[w]] = w
                      /\ BothWays(stream[s]) /\ Unblocked(stream[s])
    BY DEF StreamsReachOwner, OpenStreamsFlow, NoCopierBlocks
  <2> QED BY DEF StreamsInv, StreamInv, WorkerServes, WorkersInv, LinkedIsRouted
<1> QED BY <1>1, StreamsInvariant, PTL

(* Serving streams changes nothing about the workers: with them, too, a    *)
(* worker with a live session owns its route.                              *)
THEOREM StreamsLinkedIsRouted == StreamsSpec => []LinkedIsRouted
<1>1. StreamsInv => LinkedIsRouted
  BY DEF StreamsInv, WorkersInv
<1> QED BY <1>1, StreamsInvariant, PTL

(* The workers with their streams are the workers, to the relay's table    *)
(* the directory.                                                          *)
THEOREM StreamsImplementWorkers == StreamsSpec => FreeSpec /\ Directory!Spec
<1>1. InitStreams => InitWorkers
  BY DEF InitStreams
<1>2. [StreamsNext]_streamVars => [FreeNext]_workerVars
  BY Zenon
  DEF StreamsNext, StreamStep, OpenStream, HandlerRuns, Accept, TargetRefuses, DialsTarget, Returns,
      Copies, UpEnds, UpStalls, UpResumes, DownEnds, DownStalls, DownResumes,
      RelayCloses, TargetCloses, Turns, streamVars
<1>3. StreamsSpec => FreeSpec
  BY <1>1, <1>2, PTL DEF StreamsSpec, FreeSpec
<1> QED BY <1>3, WorkersImplementDirectory
-----------------------------------------------------------------------------
(* What workers and streams come to in the end.  The prover does not look  *)
(* into ENABLED: that a step can be taken where its guard holds is a       *)
(* hypothesis of these theorems.  It holds by the form of the steps, which *)
(* choose the new values of the variables and ask nothing else of them.    *)
Signalled(w) == w \in signal
IsLive(w) == worker[w] \in Live
Gone(w) == worker[w] = "gone"
Retrying(w) == worker[w] = "retrying"
Owns(w) == \E r \in Route : owner[r] = w
RouteFree(w) == owner[job[w]] = NoWorker
OwnsItsRoute(w) == owner[job[w]] = w

WorkersCanStep ==
    \A w \in Worker :
        /\ Signalled(w) /\ IsLive(w) => ENABLED <<Stop(w)>>_workerVars
        /\ w \notin linked /\ Owns(w) => ENABLED <<ReleasesOf(w)>>_workerVars
        /\ Retrying(w) /\ RouteFree(w) => ENABLED <<GetsThrough(w)>>_workerVars

(* Only a worker that was started is signalled.                            *)
SignalsReachSomebody == \A w \in signal : worker[w] # "unborn"

(* What a step of anybody makes of a worker.                               *)
LEMMA PhaseMoves ==
  ASSUME WorkersInv, [FreeNext]_workerVars, NEW w \in Worker
  PROVE  /\ IsLive(w) => IsLive(w)' \/ Gone(w)'
         /\ Gone(w) => Gone(w)'
         /\ Retrying(w) /\ ~Signalled(w) => Retrying(w)' \/ worker'[w] = "holding"
<1> USE DEF IsLive, Gone, Retrying, Signalled, Live
<1>1. ASSUME NEW v \in Worker, v # w, NEW phase, Becomes(v, phase)
      PROVE  worker'[w] = worker[w]
  BY <1>1 DEF Becomes, WorkersInv, WorkersTypeOK
<1>2. ASSUME NEW phase, Becomes(w, phase) PROVE worker'[w] = phase
  BY <1>2 DEF Becomes, WorkersInv, WorkersTypeOK
<1>3. ASSUME NEW v \in Worker, v # w, WorkerStep(v) PROVE worker'[w] = worker[w]
  BY <1>1, <1>3 DEF WorkerStep, FirstDial, Notice, Redial, Stop
<1>4. CASE FirstDial(w) \/ Notice(w)
  BY <1>2, <1>4 DEF FirstDial, Notice
<1>5. CASE Redial(w)
  BY <1>2, <1>5 DEF Redial
<1>6. CASE Stop(w)
  BY <1>2, <1>6 DEF Stop
<1>7. ASSUME NEW v \in Worker, NEW r \in Route, Spawn(v, r)
      PROVE  worker'[w] = worker[w] \/ worker[w] = "unborn"
  BY <1>1, <1>7 DEF Spawn
<1>8. ASSUME NEW v \in Worker, Drop(v) \/ SendSignal(v) PROVE worker' = worker
  BY <1>8 DEF Drop, SendSignal
<1>9. ASSUME NEW r \in Route, Release(r) PROVE worker' = worker
  BY <1>9 DEF Release
<1>10. RelayRestarts \/ UNCHANGED workerVars => worker' = worker
  BY DEF RelayRestarts, workerVars
<1> QED BY <1>3, <1>4, <1>5, <1>6, <1>7, <1>8, <1>9, <1>10
        DEF FreeNext, WorkersNext, WorkerStep

(* Nobody takes a signal back, and none is sent to a worker not started.   *)
LEMMA SignalsStay ==
  ASSUME WorkersInv, [FreeNext]_workerVars
  PROVE  /\ signal \subseteq signal'
         /\ SignalsReachSomebody => SignalsReachSomebody'
<1>1. signal' = signal \/ \E w \in Worker : SendSignal(w)
  BY DEF FreeNext, WorkersNext, WorkerStep, FirstDial, Notice, Redial, Stop, Drop,
         Release, RelayRestarts, Spawn, workerVars
<1>2. \A w \in signal' : w \in signal \/ worker[w] # "unborn"
  BY <1>1 DEF SendSignal, Live
<1>3. ASSUME NEW w \in Worker, worker[w] # "unborn" PROVE worker'[w] # "unborn"
  <2>1. IsLive(w) \/ Gone(w)
    BY <1>3 DEF WorkersInv, WorkersTypeOK, Phases, IsLive, Live, Gone
  <2> QED BY <2>1, PhaseMoves DEF IsLive, Live, Gone
<1>4. signal' \subseteq Worker
  BY FreeNextKeepsWorkers DEF WorkersInv, WorkersTypeOK
<1> QED BY <1>1, <1>2, <1>3, <1>4 DEF SendSignal, SignalsReachSomebody

(* A worker that is gone takes no route any more.                          *)
LEMMA GoneTakesNothing ==
  ASSUME WorkersInv, [FreeNext]_workerVars, NEW w \in Worker, Gone(w), ~Owns(w)
  PROVE  ~Owns(w)'
<1>1. ASSUME NEW v \in Worker, Connects(v) \/ DialFails(v), worker[v] # "gone"
      PROVE  \A r \in Route : owner'[r] # w
  <2>1. w # v
    BY <1>1 DEF Gone
  <2>2. owner' = owner \/ owner' = [owner EXCEPT ![job[v]] = v]
    BY <1>1 DEF Connects, DialFails
  <2> QED BY <2>1, <2>2 DEF WorkersInv, WorkersTypeOK, Owns
<1>2. ASSUME NEW v \in Worker, WorkerStep(v)
      PROVE  \A r \in Route : owner'[r] # w
  <2>1. CASE FirstDial(v) \/ Redial(v)
    BY <1>1, <2>1 DEF FirstDial, Redial
  <2>2. CASE Notice(v) \/ Stop(v)
    BY <2>2 DEF Notice, Stop, Owns
  <2> QED BY <1>2, <2>1, <2>2 DEF WorkerStep
<1>3. ASSUME NEW v \in Worker, Drop(v) \/ SendSignal(v) \/ (\E r \in Route : Spawn(v, r))
      PROVE  owner' = owner
  BY <1>3 DEF Drop, SendSignal, Spawn
<1>4. ASSUME NEW x \in Route, Release(x) PROVE \A r \in Route : owner'[r] # w
  BY <1>4, WorkersAssumption DEF Release, WorkersInv, WorkersTypeOK, Owns
<1>5. CASE RelayRestarts
  BY <1>5, WorkersAssumption DEF RelayRestarts, Owns
<1>6. CASE UNCHANGED workerVars
  BY <1>6 DEF workerVars, Owns
<1> QED BY <1>2, <1>3, <1>4, <1>5, <1>6 DEF FreeNext, WorkersNext, Owns

(* The clean-up of its session leaves a worker no route.                   *)
LEMMA ReleaseFrees ==
  ASSUME WorkersInv, NEW w \in Worker, ReleasesOf(w)
  PROVE  /\ ~Owns(w)'
         /\ RouteFree(w)'
<1>1. PICK r \in Route : owner[r] = w /\ Release(r)
  BY DEF ReleasesOf
<1>2. job[w] = r /\ w # NoWorker
  BY <1>1, WorkersAssumption DEF WorkersInv, OwnersJob
<1>3. owner' = [owner EXCEPT ![r] = NoWorker] /\ job' = job
  BY <1>1 DEF Release
<1>4. ASSUME NEW x \in Route PROVE owner'[x] # w
  BY <1>2, <1>3 DEF WorkersInv, WorkersTypeOK, OwnersJob
<1> QED BY <1>2, <1>3, <1>4 DEF WorkersInv, WorkersTypeOK, Owns, RouteFree

(* A worker told to stop is gone, and loses its route for good: Hold ends  *)
(* whatever it is doing, and the relay's handler gets to the clean-up.     *)
THEOREM StreamsStoppedFreesRoute ==
  StreamsSpec /\ []WorkersCanStep => StoppedFreesRoute
<1>1. ASSUME NEW w \in Worker
      PROVE  StreamsSpec /\ []WorkersCanStep => (Signalled(w) ~> [](Gone(w) /\ ~Owns(w)))
  <2>1. StreamsSpec => FreeSpec /\ WorkerFairness(w)
    BY StreamsImplementWorkers DEF StreamsSpec, WorkersFairness
  <2>2. WorkersCanStep =>
            /\ Signalled(w) /\ IsLive(w) => ENABLED <<Stop(w)>>_workerVars
            /\ w \notin linked /\ Owns(w) => ENABLED <<ReleasesOf(w)>>_workerVars
    BY DEF WorkersCanStep
  <2>3. /\ InitWorkers => WorkersInv /\ SignalsReachSomebody
        /\ WorkersInv /\ SignalsReachSomebody /\ [FreeNext]_workerVars =>
              (WorkersInv /\ SignalsReachSomebody)'
    BY InitWorkersInv, FreeNextKeepsWorkers, SignalsStay
    DEF InitWorkers, SignalsReachSomebody
  <2>4. WorkersInv /\ SignalsReachSomebody => (Signalled(w) => IsLive(w) \/ Gone(w))
    BY DEF WorkersInv, WorkersTypeOK, Phases, SignalsReachSomebody, Signalled, IsLive,
           Live, Gone
  <2>5. WorkersInv /\ Gone(w) => w \notin linked
    BY DEF WorkersInv, LinkedHolds, Gone
  <2>6. WorkersInv /\ [FreeNext]_workerVars =>
            /\ Signalled(w) => Signalled(w)'
            /\ IsLive(w) => IsLive(w)' \/ Gone(w)'
            /\ Gone(w) => Gone(w)'
            /\ Gone(w) /\ ~Owns(w) => ~Owns(w)'
    BY PhaseMoves, SignalsStay, GoneTakesNothing DEF Signalled
  <2>7. WorkersInv /\ Stop(w) => Gone(w)'
    BY DEF WorkersInv, WorkersTypeOK, Stop, Becomes, Gone
  <2>8. WorkersInv /\ ReleasesOf(w) => ~Owns(w)'
    BY ReleaseFrees
  <2> QED BY <2>1, <2>2, <2>3, <2>4, <2>5, <2>6, <2>7, <2>8, PTL
          DEF FreeSpec, WorkerFairness
<1>2. ASSUME NEW w \in Worker
      PROVE  StreamsSpec /\ []WorkersCanStep =>
                 ((w \in signal) ~>
                     [](worker[w] = "gone" /\ \A r \in Route : owner[r] # w))
  <2>1. Signalled(w) <=> w \in signal
    BY DEF Signalled
  <2>2. Gone(w) /\ ~Owns(w) <=> worker[w] = "gone" /\ \A r \in Route : owner[r] # w
    BY DEF Gone, Owns
  <2> QED BY <1>1, <2>1, <2>2, PTL
<1> QED BY <1>2 DEF StoppedFreesRoute

(* A worker that lost its session gets it back, unless it is told to stop  *)
(* or another tunnel takes the route: once the relay has let go of the old *)
(* session, an attempt gets through.                                       *)
THEOREM StreamsComesBack == StreamsSpec /\ []WorkersCanStep => ComesBack
<1> DEFINE Settles(w) ==
      \/ worker[w] = "holding" \/ w \in signal
      \/ \E r \in Route : job[w] = r /\ owner[r] \notin {w, NoWorker}
<1>1. ASSUME NEW w \in Worker
      PROVE  StreamsSpec /\ []WorkersCanStep => ((worker[w] = "retrying") ~> Settles(w))
  <2> HIDE DEF Settles
  <2>1. StreamsSpec => FreeSpec /\ WorkerFairness(w)
    BY StreamsImplementWorkers DEF StreamsSpec, WorkersFairness
  <2>2. WorkersCanStep =>
            /\ w \notin linked /\ Owns(w) => ENABLED <<ReleasesOf(w)>>_workerVars
            /\ Retrying(w) /\ RouteFree(w) => ENABLED <<GetsThrough(w)>>_workerVars
    BY DEF WorkersCanStep
  <2>3. WorkersInv /\ Retrying(w) => Settles(w) \/ RouteFree(w) \/ OwnsItsRoute(w)
    BY DEF WorkersInv, WorkersTypeOK, Retrying, RouteFree, OwnsItsRoute, Settles
  <2>4. WorkersInv /\ Retrying(w) /\ OwnsItsRoute(w) => w \notin linked /\ Owns(w)
    BY DEF WorkersInv, WorkersTypeOK, LinkedHolds, Retrying, OwnsItsRoute, Owns
  <2>5. WorkersInv /\ [FreeNext]_workerVars /\ Retrying(w) /\ ~Settles(w) =>
            Retrying(w)' \/ Settles(w)'
    BY PhaseMoves DEF Settles, Signalled
  <2>6. WorkersInv /\ ReleasesOf(w) => RouteFree(w)'
    BY ReleaseFrees
  <2>7. WorkersInv /\ GetsThrough(w) => Settles(w)'
    BY DEF WorkersInv, WorkersTypeOK, GetsThrough, Becomes, Settles
  <2>8. WorkersInv /\ OwnsItsRoute(w) => ~RouteFree(w)
    BY WorkersAssumption DEF OwnsItsRoute, RouteFree
  <2>9. Retrying(w) <=> worker[w] = "retrying"
    BY DEF Retrying
  <2> QED BY <2>1, <2>2, <2>3, <2>4, <2>5, <2>6, <2>7, <2>8, <2>9,
             InitWorkersInv, FreeNextKeepsWorkers, PTL
          DEF FreeSpec, WorkerFairness
<1> QED BY <1>1 DEF ComesBack

(* A stream that waits for the accept loop, and one that is coming to an   *)
(* end because one of its ends is closed, with what has ended of it.       *)
Waits(s) == stream[s].at = "backlog"
IsFree(s) == stream[s] = Free
Ending(s) ==
    /\ stream[s].at \in {"piping", "returned"}
    /\ ~stream[s].relay \/ ~stream[s].target
Returned(s) == stream[s].at = "returned"
RelayLeft(s) == ~stream[s].relay
TargetLeft(s) == ~stream[s].target
UpDone(s) == stream[s].up \notin Busy
DownDone(s) == stream[s].down \notin Busy

StreamsCanStep ==
    \A s \in Stream :
        /\ Waits(s) \/ (Ending(s) /\ ~Returned(s) /\ (UpDone(s) \/ DownDone(s)))
              => ENABLED <<HandlerRuns(s)>>_streamVars
        /\ Ending(s) /\ RelayLeft(s) /\ ~UpDone(s) /\ ~Hangs(s)
              => ENABLED <<UpFinishes(s)>>_streamVars
        /\ Ending(s) /\ TargetLeft(s) /\ ~DownDone(s) /\ ~Hangs(s)
              => ENABLED <<DownFinishes(s)>>_streamVars
        /\ Ending(s) /\ Returned(s) /\ ~RelayLeft(s) => ENABLED <<RelayFollows(s)>>_streamVars

(* A stream that is ending stays so and does not go back, until it is free. *)
Later(s, st) ==
    /\ st.at \in {"piping", "returned"}
    /\ stream[s].at = "returned" => st.at = "returned"
    /\ ~stream[s].relay => ~st.relay
    /\ ~stream[s].target => ~st.target
    /\ stream[s].up \notin Busy => st.up \notin Busy
    /\ stream[s].down \notin Busy => st.down \notin Busy

LEMMA EndingGoesOn ==
  ASSUME StreamsInv, [StreamsNext]_streamVars, NEW s \in Stream, Ending(s)
  PROVE  IsFree(s)' \/ Later(s, stream'[s])
<1>1. stream \in [Stream -> StreamState] /\ stream[s] \in StreamState /\ stream[s] # Free
  BY DEF StreamsInv, Ending, Free
<1>2. ASSUME NEW st, Turns(s, st), Later(s, st)
      PROVE  IsFree(s)' \/ Later(s, stream'[s])
  BY <1>1, <1>2 DEF Turns, Settled, IsFree
<1>3. ASSUME NEW t \in Stream, NEW st, t # s, Turns(t, st) PROVE stream'[s] = stream[s]
  BY <1>1, <1>3 DEF Turns
<1>4. Later(s, stream[s])
  BY DEF Later, Ending
<1>5. ASSUME NEW t \in Stream, t # s, StreamStep(t) PROVE stream'[s] = stream[s]
  BY <1>3, <1>5, Zenon
  DEF StreamStep, OpenStream, HandlerRuns, Accept, TargetRefuses, DialsTarget, Returns,
      Copies, UpEnds, UpStalls, UpResumes, DownEnds, DownStalls, DownResumes,
      RelayCloses, TargetCloses
<1>6. ~OpenStream(s) /\ ~Accept(s) /\ ~TargetRefuses(s) /\ ~DialsTarget(s)
  BY <1>1, Zenon DEF OpenStream, Accept, TargetRefuses, DialsTarget, Ending
<1>7. CASE UpEnds(s) \/ UpStalls(s) \/ UpResumes(s)
  <2>1. ASSUME NEW c, stream[s].up \in Busy
        PROVE  /\ Later(s, [stream[s] EXCEPT !.up = c])
               /\ Later(s, [stream[s] EXCEPT !.up = c, !.target = FALSE])
    BY <1>1, <1>4, <2>1 DEF Later, StreamState
  <2>2. stream[s].up \in Busy
    BY <1>7 DEF UpEnds, UpStalls, UpResumes, Busy
  <2>3. CASE UpEnds(s)
    BY <1>2, <2>1, <2>2, <2>3, Zenon DEF UpEnds
  <2>4. CASE UpStalls(s)
    BY <1>2, <2>1, <2>2, <2>4, Zenon DEF UpStalls
  <2>5. CASE UpResumes(s)
    BY <1>2, <2>1, <2>2, <2>5, Zenon DEF UpResumes
  <2> QED BY <1>7, <2>3, <2>4, <2>5
<1>8. CASE DownEnds(s) \/ DownStalls(s) \/ DownResumes(s)
  <2>1. ASSUME NEW c, stream[s].down \in Busy
        PROVE  Later(s, [stream[s] EXCEPT !.down = c])
    BY <1>1, <1>4, <2>1 DEF Later, StreamState
  <2>2. stream[s].down \in Busy
    BY <1>8 DEF DownEnds, DownStalls, DownResumes, Busy
  <2>3. CASE DownEnds(s)
    BY <1>2, <2>1, <2>2, <2>3, Zenon DEF DownEnds
  <2>4. CASE DownStalls(s)
    BY <1>2, <2>1, <2>2, <2>4, Zenon DEF DownStalls
  <2>5. CASE DownResumes(s)
    BY <1>2, <2>1, <2>2, <2>5, Zenon DEF DownResumes
  <2> QED BY <1>8, <2>3, <2>4, <2>5
<1>9. CASE Returns(s)
  <2>1. Later(s, [stream[s] EXCEPT !.at = "returned", !.target = FALSE])
    BY <1>1, <1>4 DEF Later, StreamState
  <2> QED BY <1>2, <1>9, <2>1 DEF Returns
<1>10. CASE RelayCloses(s)
  <2>1. Later(s, [stream[s] EXCEPT !.relay = FALSE])
    BY <1>1, <1>4 DEF Later, StreamState
  <2> QED BY <1>2, <1>10, <2>1 DEF RelayCloses
<1>11. CASE TargetCloses(s)
  <2>1. Later(s, [stream[s] EXCEPT !.target = FALSE])
    BY <1>1, <1>4 DEF Later, StreamState
  <2> QED BY <1>2, <1>11, <2>1 DEF TargetCloses
<1>12. CASE stream' = [t \in Stream |-> Follows(t)]
  <2>1. Follows(s) \in {Free, stream[s], Settled([stream[s] EXCEPT !.relay = FALSE])}
    BY DEF Follows
  <2>2. Later(s, [stream[s] EXCEPT !.relay = FALSE])
    BY <1>1, <1>4 DEF Later, StreamState
  <2> QED BY <1>4, <1>12, <2>1, <2>2 DEF Settled, IsFree
<1>13. CASE UNCHANGED streamVars
  BY <1>4, <1>13 DEF streamVars
<1> QED BY <1>4, <1>5, <1>6, <1>7, <1>8, <1>9, <1>10, <1>11, <1>12, <1>13
        DEF StreamsNext, StreamStep, HandlerRuns, Copies

(* What each step of the clean-up brings about.                            *)
LEMMA EndingAdvances ==
  ASSUME StreamsInv, NEW s \in Stream
  PROVE  /\ UpFinishes(s) => UpDone(s)' \/ IsFree(s)'
         /\ DownFinishes(s) => DownDone(s)' \/ IsFree(s)'
         /\ Ending(s) /\ HandlerRuns(s) => Returned(s)' \/ IsFree(s)'
         /\ RelayFollows(s) => RelayLeft(s)' \/ IsFree(s)'
         /\ Waits(s) /\ HandlerRuns(s) => ~Waits(s)'
<1>1. stream \in [Stream -> StreamState] /\ stream[s] \in StreamState
  BY DEF StreamsInv
<1>2. ASSUME NEW st, Turns(s, st) PROVE stream'[s] = st \/ stream'[s] = Free
  BY <1>1, <1>2 DEF Turns, Settled
<1>3. CopierEnd(s) \notin Busy
  BY DEF CopierEnd, Busy
<1> USE DEF IsFree, StreamState
<1>4. UpFinishes(s) => UpDone(s)' \/ IsFree(s)'
  BY <1>1, <1>2, <1>3 DEF UpFinishes, UpEnds, UpDone
<1>5. DownFinishes(s) => DownDone(s)' \/ IsFree(s)'
  BY <1>1, <1>2, <1>3 DEF DownFinishes, DownEnds, DownDone
<1>6. Ending(s) /\ HandlerRuns(s) => Returned(s)' \/ IsFree(s)'
  <2>1. Ending(s) /\ HandlerRuns(s) => Returns(s)
    BY DEF Ending, HandlerRuns, Accept, TargetRefuses, DialsTarget
  <2> QED BY <1>1, <1>2, <2>1 DEF Returns, Returned
<1>7. RelayFollows(s) => RelayLeft(s)' \/ IsFree(s)'
  BY <1>1, <1>2 DEF RelayFollows, RelayCloses, RelayLeft
<1>8. Waits(s) /\ HandlerRuns(s) => ~Waits(s)'
  <2>1. Waits(s) /\ HandlerRuns(s) => Accept(s)
    BY DEF Waits, HandlerRuns, TargetRefuses, DialsTarget, Returns
  <2> QED BY <1>1, <1>2, <2>1 DEF Accept, Waits, Free
<1> QED BY <1>4, <1>5, <1>6, <1>7, <1>8

(* Nothing is left over of a stream that has settled.                      *)
AllSettled == \A s \in Stream : Settled(stream[s]) = stream[s]

LEMMA SettledOnce ==
  ASSUME NEW st PROVE Settled(Settled(st)) = Settled(st)
  BY DEF Settled, Free

LEMMA StreamsSettle ==
  /\ InitStreams => AllSettled
  /\ StreamsInv /\ AllSettled /\ [StreamsNext]_streamVars => AllSettled'
<1>1. InitStreams => AllSettled
  BY DEF InitStreams, AllSettled, Settled, Free
<1> SUFFICES ASSUME StreamsInv, AllSettled, [StreamsNext]_streamVars PROVE AllSettled'
  BY <1>1
<1>2. ASSUME NEW s \in Stream, NEW st, Turns(s, st) PROVE AllSettled'
  <2>1. stream' = [stream EXCEPT ![s] = Settled(st)] /\ stream \in [Stream -> StreamState]
    BY <1>2 DEF Turns, StreamsInv
  <2>2. ASSUME NEW t \in Stream PROVE Settled(stream'[t]) = stream'[t]
    BY <2>1, SettledOnce DEF AllSettled
  <2> QED BY <2>2 DEF AllSettled
<1>3. ASSUME NEW s \in Stream, StreamStep(s) PROVE \E st : Turns(s, st)
  BY <1>3, Zenon
  DEF StreamStep, OpenStream, HandlerRuns, Accept, TargetRefuses, DialsTarget, Returns,
      Copies, UpEnds, UpStalls, UpResumes, DownEnds, DownStalls, DownResumes,
      RelayCloses, TargetCloses
<1>4. CASE stream' = [s \in Stream |-> Follows(s)]
  <2>1. ASSUME NEW s \in Stream PROVE Settled(stream'[s]) = stream'[s]
    <3>1. \/ Follows(s) \in {Free, stream[s]}
          \/ Follows(s) = Settled([stream[s] EXCEPT !.relay = FALSE])
      BY DEF Follows
    <3>2. Settled(Free) = Free
      BY DEF Settled
    <3>3. Settled(Follows(s)) = Follows(s)
      BY <3>1, <3>2, SettledOnce DEF AllSettled
    <3> QED BY <1>4, <3>3
  <2> QED BY <2>1 DEF AllSettled
<1>5. CASE UNCHANGED streamVars
  BY <1>5 DEF streamVars, AllSettled
<1> QED BY <1>2, <1>3, <1>4, <1>5 DEF StreamsNext

LEMMA EndingIsBusy ==
  ASSUME StreamsInv, AllSettled, NEW s \in Stream, Ending(s), Returned(s), RelayLeft(s)
  PROVE  ~UpDone(s) \/ ~DownDone(s)
<1>1. stream[s] \in StreamState /\ Unblocked(stream[s]) /\ stream[s] # Free
  BY DEF StreamsInv, StreamInv, Ending, Free
<1>2. Settled(stream[s]) # Free
  BY <1>1 DEF AllSettled
<1> QED BY <1>1, <1>2 DEF Settled, StreamState, Copier, Busy, Unblocked, Returned,
                          RelayLeft, UpDone, DownDone

(* A stream is taken from the backlog whatever the others are doing.       *)
THEOREM StreamsNobodyWaitsBehind ==
  StreamsSpec /\ []StreamsCanStep => NobodyWaitsBehind
<1>1. ASSUME NEW s \in Stream
      PROVE  StreamsSpec /\ []StreamsCanStep =>
                 ((stream[s].at = "backlog") ~> (stream[s].at # "backlog"))
  <2>1. StreamsSpec => StreamFairness(s)
    BY DEF StreamsSpec
  <2>2. StreamsCanStep => (Waits(s) => ENABLED <<HandlerRuns(s)>>_streamVars)
    BY DEF StreamsCanStep
  <2>3. StreamsInv /\ Waits(s) /\ HandlerRuns(s) => ~Waits(s)'
    BY EndingAdvances
  <2>4. Waits(s) <=> stream[s].at = "backlog"
    BY DEF Waits
  <2>5. stream[s].at # "backlog" <=> ~(stream[s].at = "backlog")
    OBVIOUS
  <2> QED BY <2>1, <2>2, <2>3, <2>4, <2>5, StreamsInvariant, PTL DEF StreamFairness
<1> QED BY <1>1 DEF NobodyWaitsBehind

(* Once either end is closed, or the session lost, the copiers come to an  *)
(* end one after the other, the relay closes its end, and nothing is left, *)
(* unless the stream hangs: its last write is stuck on the end still open. *)
THEOREM StreamsStreamsEnd == StreamsSpec /\ []StreamsCanStep => StreamsEnd
<1>1. ASSUME NEW s \in Stream
      PROVE  StreamsSpec /\ []StreamsCanStep => (Ending(s) ~> IsFree(s) \/ Hangs(s))
  <2>1. StreamsSpec => /\ InitStreams /\ [][StreamsNext]_streamVars
                       /\ StreamFairness(s)
    BY DEF StreamsSpec
  <2>2. StreamsSpec => /\ WF_streamVars(UpFinishes(s)) /\ WF_streamVars(DownFinishes(s))
                       /\ WF_streamVars(HandlerRuns(s)) /\ WF_streamVars(RelayFollows(s))
    BY <2>1, PTL DEF StreamFairness
  <2>3. StreamsSpec => [](StreamsInv /\ AllSettled)
    BY <2>1, StreamsInvariant, StreamsSettle, PTL
  <2>4. StreamsInv /\ [StreamsNext]_streamVars /\ Ending(s) =>
          \/ IsFree(s)'
          \/ /\ Ending(s)'
             /\ Returned(s) => Returned(s)'
             /\ RelayLeft(s) => RelayLeft(s)'
             /\ TargetLeft(s) => TargetLeft(s)'
             /\ UpDone(s) => UpDone(s)'
             /\ DownDone(s) => DownDone(s)'
    BY EndingGoesOn
    DEF Later, Ending, Returned, RelayLeft, TargetLeft, UpDone, DownDone
  <2>5. StreamsSpec /\ []StreamsCanStep =>
            (Ending(s) /\ RelayLeft(s) ~>
                IsFree(s) \/ Hangs(s) \/ (Ending(s) /\ UpDone(s)))
    <3>1. StreamsCanStep => (Ending(s) /\ RelayLeft(s) /\ ~UpDone(s) /\ ~Hangs(s) =>
                                ENABLED <<UpFinishes(s)>>_streamVars)
      BY DEF StreamsCanStep
    <3>2. StreamsInv /\ UpFinishes(s) => UpDone(s)' \/ IsFree(s)'
      BY EndingAdvances
    <3> QED BY <2>1, <2>2, <2>3, <2>4, <3>1, <3>2, PTL
  <2>6. StreamsSpec /\ []StreamsCanStep =>
            (Ending(s) /\ TargetLeft(s) ~>
                IsFree(s) \/ Hangs(s) \/ (Ending(s) /\ DownDone(s)))
    <3>1. StreamsCanStep => (Ending(s) /\ TargetLeft(s) /\ ~DownDone(s) /\ ~Hangs(s) =>
                                ENABLED <<DownFinishes(s)>>_streamVars)
      BY DEF StreamsCanStep
    <3>2. StreamsInv /\ DownFinishes(s) => DownDone(s)' \/ IsFree(s)'
      BY EndingAdvances
    <3> QED BY <2>1, <2>2, <2>3, <2>4, <3>1, <3>2, PTL
  <2>7. StreamsSpec /\ []StreamsCanStep =>
            (Ending(s) /\ (UpDone(s) \/ DownDone(s)) ~>
                IsFree(s) \/ (Ending(s) /\ Returned(s)))
    <3>1. StreamsCanStep =>
              (Ending(s) /\ ~Returned(s) /\ (UpDone(s) \/ DownDone(s)) =>
                  ENABLED <<HandlerRuns(s)>>_streamVars)
      BY DEF StreamsCanStep
    <3>2. StreamsInv /\ Ending(s) /\ HandlerRuns(s) => Returned(s)' \/ IsFree(s)'
      BY EndingAdvances
    <3> QED BY <2>1, <2>2, <2>3, <2>4, <3>1, <3>2, PTL
  <2>8. StreamsSpec /\ []StreamsCanStep =>
            (Ending(s) /\ Returned(s) ~>
                IsFree(s) \/ (Ending(s) /\ Returned(s) /\ RelayLeft(s)))
    <3>1. StreamsCanStep => (Ending(s) /\ Returned(s) /\ ~RelayLeft(s) =>
                                ENABLED <<RelayFollows(s)>>_streamVars)
      BY DEF StreamsCanStep
    <3>2. StreamsInv /\ RelayFollows(s) => RelayLeft(s)' \/ IsFree(s)'
      BY EndingAdvances
    <3> QED BY <2>1, <2>2, <2>3, <2>4, <3>1, <3>2, PTL
  <2>9. StreamsInv /\ AllSettled =>
          ~(Ending(s) /\ Returned(s) /\ RelayLeft(s) /\ UpDone(s) /\ DownDone(s))
    BY EndingIsBusy
  <2>10. StreamsInv => (Returned(s) => TargetLeft(s))
    BY DEF StreamsInv, StreamInv, HandlerAt, Returned, TargetLeft
  <2>11. Ending(s) => RelayLeft(s) \/ TargetLeft(s)
    BY DEF Ending, RelayLeft, TargetLeft
  <2>12. StreamsSpec /\ []StreamsCanStep =>
            (Ending(s) ~> IsFree(s) \/ Hangs(s) \/ (Ending(s) /\ (UpDone(s) \/ DownDone(s))))
    BY <2>5, <2>6, <2>11, PTL
  <2>13. StreamsSpec /\ []StreamsCanStep =>
            (Ending(s) ~>
                IsFree(s) \/ Hangs(s) \/ (Ending(s) /\ Returned(s) /\ RelayLeft(s)))
    BY <2>7, <2>8, <2>12, PTL
  <2>14. StreamsSpec /\ []StreamsCanStep =>
            (Ending(s) /\ Returned(s) /\ RelayLeft(s) ~>
                \/ IsFree(s) \/ Hangs(s)
                \/ Ending(s) /\ Returned(s) /\ RelayLeft(s) /\ UpDone(s))
    BY <2>1, <2>3, <2>4, <2>5, PTL
  <2>15. StreamsSpec /\ []StreamsCanStep =>
            (Ending(s) /\ Returned(s) /\ RelayLeft(s) /\ UpDone(s) ~>
                IsFree(s) \/ Hangs(s))
    BY <2>1, <2>3, <2>4, <2>6, <2>9, <2>10, PTL
  <2> QED BY <2>13, <2>14, <2>15, PTL
<1>2. ASSUME NEW s \in Stream
      PROVE  StreamsSpec /\ []StreamsCanStep =>
                 ((stream[s].at \in {"piping", "returned"}
                      /\ (~stream[s].relay \/ ~stream[s].target))
                  ~> (stream[s] = Free \/ Hangs(s)))
  <2>1. Ending(s) <=> /\ stream[s].at \in {"piping", "returned"}
                      /\ ~stream[s].relay \/ ~stream[s].target
    BY DEF Ending
  <2>2. IsFree(s) <=> stream[s] = Free
    BY DEF IsFree
  <2> QED BY <1>1, <2>1, <2>2, PTL
<1> QED BY <1>2 DEF StreamsEnd
-----------------------------------------------------------------------------
(* The commands.                                                           *)

PhasesOfService == {"unborn", "up", "quiet", "lingering", "leftover", "dead"}

(* What the files, or copies of them, say of workers and services, when    *)
(* these were started for the routes in j.                                 *)
TunnelRecords(f, j) ==
    /\ f \in [Route -> Worker \cup {NoWorker}]
    /\ \A r \in Route : f[r] # NoWorker => j[f[r]] = r
ServiceRecords(f, j) ==
    /\ f \in [RunRoute -> Service \cup {NoService}]
    /\ \A r \in RunRoute : f[r] # NoService => j[f[r]] = r

(* Where a command can be, and what it has still to do there.              *)
Upping == {"loadServices", "killOld", "saveStopped", "reclaim", "spawn"}
Course(st) ==
    /\ st.pc \in Upping => st.op \in {"up", "up -d"} /\ st.manifest \in Manifest
    /\ st.pc = "waiting" => st.op = "up"
    /\ st.pc \in TearDown => st.op \in {"up", "down"}
    /\ st.pc \in ByKey => st.op = "stop"
    /\ st.pc \in {"killOld", "spawn"} =>
          st.todo \subseteq RoutesOf[st.manifest] \cap RunRoute

CommandInv(st, j, k) ==
    /\ st \in CommandState
    /\ TunnelRecords(st.tuns, j)
    /\ ServiceRecords(st.svcs, k)
    /\ Course(st)

ServicesInv ==
    /\ service \in [Service -> PhasesOfService]
    /\ serves \in [Service -> Route \cup {NoRoute}]
    /\ \A s \in Service : serves[s] = NoRoute <=> service[s] = "unborn"
    /\ path \in [Worker -> Manifest \cup {NoManifest}]

FilesInv == TunnelRecords(tunnelsFile, job) /\ ServiceRecords(servicesFile, serves)

CommandsInv ==
    /\ cmd = [c \in Command |-> cmd[c]]
    /\ \A c \in Command : cmd[c] = Idle \/ CommandInv(cmd[c], job, serves)

IInv == WorkersInv /\ ServicesInv /\ FilesInv /\ CommandsInv

(* What was started keeps its route.                                       *)
Stay ==
    /\ \A w \in Worker : job[w] \in Route => job'[w] = job[w]
    /\ \A s \in Service : serves[s] \in Route => serves'[s] = serves[s]

(* What is said of them stays true.                                        *)
LEMMA TunnelRecordsStay ==
  ASSUME Stay, NEW f, TunnelRecords(f, job)
  PROVE  TunnelRecords(f, job')
  BY DEF Stay, TunnelRecords

LEMMA ServiceRecordsStay ==
  ASSUME Stay, NEW f, ServiceRecords(f, serves)
  PROVE  ServiceRecords(f, serves')
  BY LifecycleAssumption DEF Stay, ServiceRecords

(* One command takes a step, the others keep what they know.               *)
LEMMA StepKeepsCommands ==
  ASSUME CommandsInv, Stay, NEW c \in Command, NEW st, Step(c, st),
         CommandInv(st, job', serves')
  PROVE  CommandsInv'
<1>1. /\ cmd' = [d \in Command |-> cmd'[d]]
      /\ cmd'[c] = st /\ \A d \in Command \ {c} : cmd'[d] = cmd[d]
  BY DEF CommandsInv, Step
<1>2. ASSUME NEW d \in Command, d # c, cmd[d] # Idle
      PROVE  CommandInv(cmd'[d], job', serves')
  <2>1. CommandInv(cmd[d], job, serves)
    BY <1>2 DEF CommandsInv
  <2>2. TunnelRecords(cmd[d].tuns, job') /\ ServiceRecords(cmd[d].svcs, serves')
    BY <2>1, TunnelRecordsStay, ServiceRecordsStay DEF CommandInv
  <2> QED BY <1>1, <1>2, <2>1, <2>2 DEF CommandInv
<1> QED BY <1>1, <1>2 DEF CommandsInv

LEMMA SameCommands ==
  ASSUME CommandsInv, Stay, UNCHANGED cmd
  PROVE  CommandsInv'
<1>1. ASSUME NEW d \in Command, cmd[d] # Idle
      PROVE  CommandInv(cmd[d], job', serves')
  BY <1>1, TunnelRecordsStay, ServiceRecordsStay DEF CommandInv, CommandsInv
<1> QED BY <1>1 DEF CommandsInv

LEMMA FilesStay ==
  ASSUME FilesInv, Stay, UNCHANGED files
  PROVE  FilesInv'
  BY TunnelRecordsStay, ServiceRecordsStay DEF FilesInv, files

(* Copies without records are true of anything.                            *)
LEMMA EmptyRecords ==
  ASSUME NEW j, NEW k
  PROVE  TunnelRecords(NoTunnels, j) /\ ServiceRecords(NoServices, k)
  BY DEF TunnelRecords, ServiceRecords, NoTunnels, NoServices

(* A command that ends has no copies.                                      *)
LEMMA EndKeepsCommands ==
  ASSUME CommandsInv, Stay, NEW c \in Command, cmd[c] # Idle,
         NEW pc \in Ended, End(c, pc)
  PROVE  CommandsInv'
<1> DEFINE st == [cmd[c] EXCEPT !.pc = pc, !.svcs = NoServices,
                                !.tuns = NoTunnels, !.todo = {}]
<1>1. CommandInv(cmd[c], job, serves)
  BY DEF CommandsInv
<1>2. /\ st \in CommandState /\ st.pc = pc
      /\ st.tuns = NoTunnels /\ st.svcs = NoServices
  BY <1>1 DEF CommandInv, CommandState, NoTunnels, NoServices
<1>3. Course(st)
  BY <1>2 DEF Course, Ended, Upping, TearDown, ByKey
<1>4. CommandInv(st, job', serves')
  BY <1>2, <1>3, EmptyRecords DEF CommandInv
<1> HIDE DEF st
<1>5. Step(c, st)
  BY DEF End, st
<1> QED BY <1>4, <1>5, StepKeepsCommands

(* How each command begins.                                                *)
Opening(op, m, pc, f, routes) ==
    /\ <<op, pc>> \in {<<"up", "loadServices">>, <<"up -d", "loadServices">>,
                      <<"down", "teardown">>, <<"start", "open">>, <<"stop", "stop">>}
    /\ m \in Manifest \cup {NoManifest}
    /\ pc = "loadServices" => m \in Manifest
    /\ f \in [RunRoute -> Port]
    /\ routes \subseteq Route

(* A command begins with no copies.                                        *)
LEMMA BeginKeepsIInv ==
  ASSUME IInv, NEW c \in Command,
         BeginUp(c) \/ BeginDown(c) \/ BeginStart(c) \/ BeginStop(c)
  PROVE  IInv'
<1>1. ASSUME NEW op, NEW m, NEW pc, NEW f, NEW routes,
             Opening(op, m, pc, f, routes), Begin(c, op, m, pc, f, routes)
      PROVE  IInv'
  <2> DEFINE st == [op |-> op, manifest |-> m, pc |-> pc, svcs |-> NoServices,
                    tuns |-> NoTunnels, ports |-> f, todo |-> routes]
  <2>1. st \in CommandState
    BY <1>1 DEF Opening, CommandState, BringUp, TearDown, ByKey, NoServices, NoTunnels
  <2>2. Course(st)
    BY <1>1 DEF Opening, Course, Upping, TearDown, ByKey
  <2>3. CommandInv(st, job', serves')
    BY <2>1, <2>2, EmptyRecords DEF CommandInv
  <2>4. Stay /\ UNCHANGED <<workerVars, service, serves, path, files>>
    BY <1>1 DEF Begin, Stay, workerVars, serviceVars, serving, files
  <2>5. CommandsInv'
    <3> HIDE DEF st
    <3>1. Step(c, st)
      BY <1>1 DEF Begin, st
    <3> QED BY <2>3, <2>4, <3>1, StepKeepsCommands DEF IInv
  <2>6. WorkersInv'
    BY <2>4, FreeNextKeepsWorkers DEF IInv
  <2>7. ServicesInv' /\ FilesInv'
    BY <2>4, FilesStay DEF IInv, ServicesInv
  <2> QED BY <2>5, <2>6, <2>7 DEF IInv
<1>2. CASE BeginUp(c)
  <2>1. PICK op \in {"up", "up -d"}, m \in Manifest :
               \E f \in Assigned(m) : Begin(c, op, m, "loadServices", f, {})
    BY <1>2 DEF BeginUp
  <2>2. PICK f \in Assigned(m) : Begin(c, op, m, "loadServices", f, {})
    BY <2>1
  <2>3. Opening(op, m, "loadServices", f, {})
    BY DEF Opening, Assigned
  <2> QED BY <2>2, <2>3, <1>1, Zenon
<1>3. CASE BeginDown(c)
  <2>1. PICK m \in Manifest : Begin(c, "down", m, "teardown", NoPorts, {})
    BY <1>3 DEF BeginDown
  <2>2. Opening("down", m, "teardown", NoPorts, {})
    BY LifecycleAssumption DEF Opening, NoPorts, AnyPort
  <2> QED BY <2>1, <2>2, <1>1, Zenon
<1>4. CASE BeginStart(c)
  <2>1. PICK r \in AdHoc : Begin(c, "start", NoManifest, "open", NoPorts, {r})
    BY <1>4 DEF BeginStart
  <2>2. Opening("start", NoManifest, "open", NoPorts, {r})
    BY LifecycleAssumption DEF Opening, NoPorts, AnyPort
  <2> QED BY <2>1, <2>2, <1>1, Zenon
<1>5. CASE BeginStop(c)
  <2>1. PICK r \in Route : Begin(c, "stop", NoManifest, "stop", NoPorts, {r})
    BY <1>5 DEF BeginStop
  <2>2. Opening("stop", NoManifest, "stop", NoPorts, {r})
    BY LifecycleAssumption DEF Opening, NoPorts, AnyPort
  <2> QED BY <2>1, <2>2, <1>1, Zenon
<1> QED BY <1>2, <1>3, <1>4, <1>5

-----------------------------------------------------------------------------
(* The steps of a command.                                                 *)

(* A command that is there, and the routes of its manifest.                *)
LEMMA CommandFacts ==
  ASSUME IInv, NEW c \in Command, cmd[c] # Idle
  PROVE  /\ CommandInv(cmd[c], job, serves)
         /\ Mine(c) \subseteq Route
         /\ Runs(c) \subseteq RunRoute
         /\ cmd[c].manifest \in Manifest =>
               Runs(c) = RoutesOf[cmd[c].manifest] \cap RunRoute
<1>1. CommandInv(cmd[c], job, serves)
  BY DEF IInv, CommandsInv
<1> QED BY <1>1, LifecycleAssumption DEF CommandInv, CommandState, Mine, Runs

(* A step that starts nothing and leaves the workers alone.                *)
LEMMA PlainStep ==
  ASSUME IInv, NEW c \in Command, NEW st, Step(c, st),
         CommandInv(st, job, serves), ServicesInv', FilesInv',
         UNCHANGED <<owner, worker, job, linked, serves>>,
         signal' \subseteq Worker
  PROVE  IInv'
<1>1. Stay /\ CommandInv(st, job', serves')
  BY DEF Stay
<1>2. CommandsInv'
  BY <1>1, StepKeepsCommands DEF IInv
<1>3. WorkersInv'
  BY SignalKeepsWorkers DEF IInv
<1> QED BY <1>2, <1>3 DEF IInv

LEMMA SameServices ==
  ASSUME ServicesInv, UNCHANGED serviceVars
  PROVE  ServicesInv' /\ serves' = serves
  BY DEF ServicesInv, serviceVars, serving

LEMMA SameFiles ==
  ASSUME FilesInv, UNCHANGED <<files, job, serves>>
  PROVE  FilesInv'
  BY DEF FilesInv, files

LEMMA SameWorkers ==
  ASSUME WorkersInv, UNCHANGED workerVars
  PROVE  /\ UNCHANGED <<owner, worker, job, linked>>
         /\ signal' \subseteq Worker
  BY DEF WorkersInv, WorkersTypeOK, workerVars

LEMMA KillGroupsKeepsServices ==
  ASSUME ServicesInv, NEW S, KillGroups(S), UNCHANGED serving
  PROVE  ServicesInv' /\ serves' = serves
  BY DEF ServicesInv, KillGroups, Lingers, Headless, HasLeader, serving, PhasesOfService

(* The steps, one by one.                                                  *)
LEMMA LoadServicesKeepsIInv ==
  ASSUME IInv, NEW c \in Command, LoadServices(c)
  PROVE  IInv'
<1> DEFINE alive == Pruned(servicesFile)
           st == [cmd[c] EXCEPT !.pc = "killOld", !.svcs = alive,
                                !.todo = {r \in Runs(c) : alive[r] # NoService}]
<1>1. CommandInv(cmd[c], job, serves) /\ cmd[c].pc = "loadServices"
  BY CommandFacts DEF LoadServices, At
<1>2. ServiceRecords(alive, serves)
  BY DEF IInv, FilesInv, ServiceRecords, Pruned
<1>3. cmd[c].manifest \in Manifest /\ cmd[c].op \in {"up", "up -d"}
  BY <1>1 DEF CommandInv, Course, Upping
<1>4. Runs(c) = RoutesOf[cmd[c].manifest] \cap RunRoute /\ Runs(c) \subseteq Route
  BY <1>3, CommandFacts, LifecycleAssumption DEF LoadServices, At
<1> HIDE DEF alive
<1>5. /\ st \in CommandState
      /\ st.pc = "killOld" /\ st.op = cmd[c].op /\ st.manifest = cmd[c].manifest
      /\ st.tuns = cmd[c].tuns /\ st.svcs = alive /\ st.todo \subseteq Runs(c)
  BY <1>1, <1>2, <1>4 DEF CommandInv, CommandState, ServiceRecords, BringUp
<1>6. CommandInv(st, job, serves)
  BY <1>1, <1>2, <1>3, <1>4, <1>5
  DEF CommandInv, Course, Upping, TearDown, ByKey
<1> HIDE DEF st
<1>7. Step(c, st)
  BY DEF LoadServices, st, alive
<1> QED BY <1>6, <1>7, PlainStep, SameServices, SameFiles, SameWorkers
        DEF LoadServices, IInv, workerVars

LEMMA KillOldKeepsIInv ==
  ASSUME IInv, NEW c \in Command, KillOld(c)
  PROVE  IInv'
<1>1. CommandInv(cmd[c], job, serves) /\ cmd[c].pc = "killOld"
  BY CommandFacts DEF KillOld, At
<1>2. PICK r \in cmd[c].todo :
         /\ KillGroups({cmd[c].svcs[r]})
         /\ Step(c, [cmd[c] EXCEPT !.svcs[r] = NoService, !.todo = @ \ {r}])
  BY DEF KillOld
<1> DEFINE st == [cmd[c] EXCEPT !.svcs[r] = NoService, !.todo = @ \ {r}]
<1>3. CommandInv(st, job, serves)
  BY <1>1 DEF CommandInv, CommandState, ServiceRecords, Course, Upping, TearDown, ByKey
<1> HIDE DEF st
<1>4. Step(c, st)
  BY <1>2 DEF st
<1> QED BY <1>2, <1>3, <1>4, PlainStep, KillGroupsKeepsServices, SameFiles,
           SameWorkers
        DEF KillOld, IInv, workerVars

(* The records a command takes are of workers that were started.           *)
LEMMA StoppedKeepsRecords ==
  ASSUME IInv, NEW R \in SUBSET Route
  PROVE  /\ TunnelRecords([r \in Route |-> IF r \in R THEN NoWorker
                                           ELSE tunnelsFile[r]], job)
         /\ R \subseteq Records => {tunnelsFile[r] : r \in R} \subseteq Worker
  BY DEF IInv, FilesInv, TunnelRecords, Records

LEMMA StopOldKeepsIInv ==
  ASSUME IInv, NEW c \in Command, StopOld(c)
  PROVE  IInv'
<1> DEFINE old == {r \in RecordsOf(cmd[c].manifest) : AliveWorker(tunnelsFile[r])}
           left == [r \in Route |-> IF r \in old THEN NoWorker ELSE tunnelsFile[r]]
           st == [cmd[c] EXCEPT !.pc = "saveStopped", !.tuns = left]
<1>1. CommandInv(cmd[c], job, serves) /\ cmd[c].pc = "killOld"
  BY CommandFacts DEF StopOld, At
<1>2. old \subseteq Records /\ old \in SUBSET Route
  BY DEF RecordsOf, Records
<1>3. Step(c, st) /\ signal' = signal \cup {tunnelsFile[r] : r \in old}
  BY DEF StopOld
<1> HIDE DEF old
<1>4. TunnelRecords(left, job) /\ {tunnelsFile[r] : r \in old} \subseteq Worker
  BY <1>2, StoppedKeepsRecords
<1>5. signal' \subseteq Worker
  BY <1>3, <1>4 DEF IInv, WorkersInv, WorkersTypeOK
<1> HIDE DEF left
<1>6. CommandInv(st, job, serves)
  BY <1>1, <1>4
  DEF CommandInv, CommandState, TunnelRecords, Course, BringUp, Upping, TearDown, ByKey
<1> HIDE DEF st
<1> QED BY <1>3, <1>5, <1>6, PlainStep, SameServices, SameFiles DEF StopOld, IInv

(* The copy a command saves.                                               *)
LEMMA SavedTunnels ==
  ASSUME IInv, NEW c \in Command, cmd[c] # Idle, tunnelsFile' = cmd[c].tuns,
         UNCHANGED <<job, serves, servicesFile>>
  PROVE  FilesInv'
  BY CommandFacts DEF CommandInv, IInv, FilesInv

LEMMA SavedServices ==
  ASSUME IInv, NEW c \in Command, cmd[c] # Idle, servicesFile' = cmd[c].svcs,
         UNCHANGED <<job, serves, tunnelsFile>>
  PROVE  FilesInv'
  BY CommandFacts DEF CommandInv, IInv, FilesInv

LEMMA SaveStoppedKeepsIInv ==
  ASSUME IInv, NEW c \in Command, SaveStopped(c)
  PROVE  IInv'
<1> DEFINE st == [cmd[c] EXCEPT !.pc = "reclaim", !.tuns = NoTunnels]
<1>1. CommandInv(cmd[c], job, serves) /\ cmd[c].pc = "saveStopped"
  BY CommandFacts DEF SaveStopped, At
<1>2. CommandInv(st, job, serves)
  BY <1>1, EmptyRecords
  DEF CommandInv, CommandState, TunnelRecords, Course, BringUp, Upping, TearDown, ByKey
<1>3. Step(c, st)
  BY DEF SaveStopped
<1> HIDE DEF st
<1>4. UNCHANGED <<job, serves>> /\ cmd[c] # Idle
  BY DEF SaveStopped, workerVars, serviceVars, serving, At
<1> QED BY <1>2, <1>3, <1>4, PlainStep, SameServices, SavedTunnels, SameWorkers
        DEF SaveStopped, IInv

LEMMA ReclaimKeepsIInv ==
  ASSUME IInv, NEW c \in Command, Reclaim(c)
  PROVE  IInv'
<1> DEFINE st == [cmd[c] EXCEPT !.pc = "spawn", !.todo = Runs(c)]
<1>1. CommandInv(cmd[c], job, serves) /\ cmd[c].pc = "reclaim"
  BY CommandFacts DEF Reclaim, At
<1>2. cmd[c].manifest \in Manifest
  BY <1>1 DEF CommandInv, Course, Upping
<1>3. Runs(c) = RoutesOf[cmd[c].manifest] \cap RunRoute /\ Runs(c) \subseteq Route
  BY <1>2, CommandFacts, LifecycleAssumption DEF Reclaim, At
<1>4. CommandInv(st, job, serves)
  BY <1>1, <1>3 DEF CommandInv, CommandState, Course, BringUp, Upping, TearDown, ByKey
<1>5. Step(c, st)
  BY DEF Reclaim
<1> HIDE DEF st
<1>6. ServicesInv' /\ serves' = serves
  BY DEF IInv, ServicesInv, Reclaim, ReclaimPorts, Listens, Silent, HasListener, serving,
         PhasesOfService
<1> QED BY <1>4, <1>5, <1>6, PlainStep, SameFiles, SameWorkers
        DEF Reclaim, IInv, workerVars

(* A group that is started is known to nobody yet.                         *)
LEMMA NewGroupIsNew ==
  ASSUME ServicesInv, NEW s \in Service, NEW r \in Route, NEW p, NEW c,
         NEW st \in PhasesOfService \ {"unborn"}, NewGroup(s, r, p, c, st)
  PROVE  /\ ServicesInv'
         /\ serves[s] = NoRoute /\ serves'[s] = r
         /\ serves' = [serves EXCEPT ![s] = r]
<1>1. r # NoRoute
  BY WorkersAssumption DEF Route
<1>2. serves' = [serves EXCEPT ![s] = r] /\ serves[s] = NoRoute
  BY DEF NewGroup, ServicesInv
<1>3. ServicesInv'
  BY <1>1, <1>2 DEF NewGroup, ServicesInv
<1> QED BY <1>2, <1>3 DEF ServicesInv

LEMMA GroupOfSpawn ==
  ASSUME NEW s, NEW r, NEW p, NEW c, SpawnGroup(s, r, p, c)
  PROVE  \E st \in {"up", "quiet", "dead"} : NewGroup(s, r, p, c, st)
<1>1. CASE \E x \in Service : Listens(x, p)
  BY <1>1 DEF SpawnGroup
<1>2. CASE ~\E x \in Service : Listens(x, p)
  BY <1>2 DEF SpawnGroup
<1> QED BY <1>1, <1>2

LEMMA NewGroupStep ==
  ASSUME IInv, NEW c \in Command, NEW st, Step(c, st),
         NEW s \in Service, NEW r \in Route, NEW p, NEW ph \in PhasesOfService \ {"unborn"},
         NewGroup(s, r, p, c, ph), UNCHANGED <<workerVars, files>>,
         Stay => CommandInv(st, job', serves')
  PROVE  IInv'
<1>1. ServicesInv' /\ serves[s] = NoRoute /\ serves' = [serves EXCEPT ![s] = r]
  BY NewGroupIsNew DEF IInv
<1>2. Stay
  BY <1>1, WorkersAssumption DEF Stay, workerVars, IInv, ServicesInv, Route
<1>3. CommandsInv'
  BY <1>2, StepKeepsCommands DEF IInv
<1>4. FilesInv'
  BY <1>2, FilesStay DEF IInv
<1>5. WorkersInv'
  BY FreeNextKeepsWorkers DEF IInv
<1> QED BY <1>1, <1>3, <1>4, <1>5 DEF IInv

LEMMA SpawnServiceKeepsIInv ==
  ASSUME IInv, NEW c \in Command, SpawnService(c)
  PROVE  IInv'
<1>1. CommandInv(cmd[c], job, serves) /\ cmd[c].pc = "spawn"
  BY CommandFacts DEF SpawnService, At
<1>2. PICK r \in cmd[c].todo, s \in Service :
         /\ SpawnGroup(s, r, cmd[c].ports[r], c)
         /\ Step(c, [cmd[c] EXCEPT !.svcs[r] = s, !.todo = @ \ {r}])
  BY DEF SpawnService
<1>3. PICK ph \in {"up", "quiet", "dead"} : NewGroup(s, r, cmd[c].ports[r], c, ph)
  BY <1>2, GroupOfSpawn
<1>4. r \in RunRoute /\ r \in Route
  BY <1>1, LifecycleAssumption DEF CommandInv, Course, Upping
<1>5. ph \in PhasesOfService \ {"unborn"}
  BY DEF PhasesOfService
<1>6. serves'[s] = r
  BY <1>3, <1>4, <1>5, NewGroupIsNew DEF IInv
<1> DEFINE st == [cmd[c] EXCEPT !.svcs[r] = s, !.todo = @ \ {r}]
<1>7. ASSUME Stay PROVE CommandInv(st, job', serves')
  <2>1. TunnelRecords(cmd[c].tuns, job') /\ ServiceRecords(cmd[c].svcs, serves')
    BY <1>1, <1>7, TunnelRecordsStay, ServiceRecordsStay DEF CommandInv
  <2> QED BY <1>1, <1>4, <1>6, <2>1
          DEF CommandInv, CommandState, ServiceRecords, Course, Upping, TearDown, ByKey
<1> HIDE DEF st
<1>8. Step(c, st)
  BY <1>2 DEF st
<1>9. UNCHANGED <<workerVars, files>>
  BY DEF SpawnService
<1> QED BY <1>3, <1>4, <1>5, <1>7, <1>8, <1>9, NewGroupStep

LEMMA SpawnFailsKeepsIInv ==
  ASSUME IInv, NEW c \in Command, SpawnFails(c)
  PROVE  IInv'
<1>1. CommandInv(cmd[c], job, serves) /\ cmd[c].pc = "spawn"
  BY CommandFacts DEF SpawnFails, At
<1>2. PICK r \in cmd[c].todo :
         /\ Step(c, [cmd[c] EXCEPT !.todo = @ \ {r}])
         /\ \/ UNCHANGED serviceVars
            \/ \E s \in Service : NewGroup(s, r, cmd[c].ports[r], c, "leftover")
  BY DEF SpawnFails
<1>3. r \in Route
  BY <1>1, LifecycleAssumption DEF CommandInv, Course, Upping
<1> DEFINE st == [cmd[c] EXCEPT !.todo = @ \ {r}]
<1>4. CommandInv(st, job, serves)
  BY <1>1 DEF CommandInv, CommandState, Course, Upping, TearDown, ByKey
<1>5. Stay => CommandInv(st, job', serves')
  BY <1>1, <1>4, TunnelRecordsStay, ServiceRecordsStay DEF CommandInv
<1> HIDE DEF st
<1>6. Step(c, st) /\ UNCHANGED <<workerVars, files>>
  BY <1>2 DEF st, SpawnFails
<1>7. CASE UNCHANGED serviceVars
  BY <1>4, <1>6, <1>7, PlainStep, SameServices, SameFiles, SameWorkers DEF IInv, workerVars
<1>8. ASSUME NEW s \in Service, NewGroup(s, r, cmd[c].ports[r], c, "leftover")
      PROVE  IInv'
  <2>1. "leftover" \in PhasesOfService \ {"unborn"}
    BY DEF PhasesOfService
  <2> QED BY <1>3, <1>5, <1>6, <1>8, <2>1, NewGroupStep
<1> QED BY <1>2, <1>7, <1>8

LEMMA SaveServicesKeepsIInv ==
  ASSUME IInv, NEW c \in Command, SaveServices(c)
  PROVE  IInv'
<1> DEFINE st == [cmd[c] EXCEPT !.pc = "open", !.todo = Mine(c)]
<1>1. /\ CommandInv(cmd[c], job, serves) /\ Mine(c) \subseteq Route
      /\ cmd[c].pc = "spawn" /\ cmd[c] # Idle
  BY CommandFacts DEF SaveServices, At
<1>2. CommandInv(st, job, serves)
  BY <1>1 DEF CommandInv, CommandState, Course, BringUp, Upping, TearDown, ByKey
<1>3. Step(c, st)
  BY DEF SaveServices
<1> HIDE DEF st
<1>4. UNCHANGED <<job, serves>>
  BY DEF SaveServices, workerVars, serviceVars, serving
<1> QED BY <1>1, <1>2, <1>3, <1>4, PlainStep, SameServices, SavedServices, SameWorkers
        DEF SaveServices, IInv

(* The worker that startOne starts is on no record yet.                    *)
LEMMA OpenKeepsIInv ==
  ASSUME IInv, NEW c \in Command, Open(c)
  PROVE  IInv'
<1>1. CommandInv(cmd[c], job, serves) /\ cmd[c].pc = "open"
  BY CommandFacts DEF Open, At
<1>2. PICK r \in cmd[c].todo, w \in Worker :
         /\ Spawn(w, r)
         /\ path' = [path EXCEPT ![w] = cmd[c].manifest]
         /\ Step(c, [cmd[c] EXCEPT !.pc = "saveOne", !.todo = @ \ {r},
                                   !.tuns = [tunnelsFile EXCEPT ![r] = w]])
  BY DEF Open
<1> DEFINE tuns == [tunnelsFile EXCEPT ![r] = w]
           st == [cmd[c] EXCEPT !.pc = "saveOne", !.todo = @ \ {r}, !.tuns = tuns]
<1>3. r \in Route
  BY <1>1 DEF CommandInv, CommandState
<1>4. WorkersInv'
  BY <1>2, <1>3, SpawnKeepsWorkers DEF IInv
<1>5. job[w] = NoRoute /\ job' = [job EXCEPT ![w] = r] /\ job'[w] = r
  BY <1>2 DEF Spawn, IInv, WorkersInv, WorkersTypeOK
<1>6. UNCHANGED <<service, serves, files>>
  BY DEF Open
<1>7. Stay
  BY <1>5, <1>6, WorkersAssumption DEF Stay, IInv, WorkersInv, WorkersTypeOK, Route
<1>8. FilesInv'
  BY <1>6, <1>7, FilesStay DEF IInv
<1>9. TunnelRecords(tuns, job')
  BY <1>3, <1>5, <1>6, <1>8 DEF FilesInv, TunnelRecords, files
<1>10. ServiceRecords(cmd[c].svcs, serves')
  BY <1>1, <1>7, ServiceRecordsStay DEF CommandInv
<1> HIDE DEF tuns
<1>11. CommandInv(st, job', serves')
  BY <1>1, <1>9, <1>10
  DEF CommandInv, CommandState, TunnelRecords, Course, BringUp, Upping, TearDown, ByKey
<1> HIDE DEF st
<1>12. Step(c, st)
  BY <1>2 DEF st, tuns
<1>13. CommandsInv'
  BY <1>7, <1>11, <1>12, StepKeepsCommands DEF IInv
<1>14. ServicesInv'
  <2>1. cmd[c].manifest \in Manifest \cup {NoManifest}
    BY <1>1 DEF CommandInv, CommandState
  <2> QED BY <1>2, <1>6, <2>1 DEF IInv, ServicesInv
<1> QED BY <1>4, <1>8, <1>13, <1>14 DEF IInv

LEMMA SaveOneKeepsIInv ==
  ASSUME IInv, NEW c \in Command, SaveOne(c)
  PROVE  IInv'
<1> DEFINE st == [cmd[c] EXCEPT !.pc = "open", !.tuns = NoTunnels]
<1>1. CommandInv(cmd[c], job, serves) /\ cmd[c].pc = "saveOne"
  BY CommandFacts DEF SaveOne, At
<1>2. CommandInv(st, job, serves)
  <2>1. st \in CommandState /\ st.pc = "open" /\ st.tuns = NoTunnels
    BY <1>1 DEF CommandInv, CommandState, BringUp, NoTunnels
  <2>2. /\ st.svcs = cmd[c].svcs /\ st.op = cmd[c].op
        /\ st.manifest = cmd[c].manifest /\ st.todo = cmd[c].todo
    BY <1>1 DEF CommandInv, CommandState
  <2> HIDE DEF st
  <2> QED BY <1>1, <2>1, <2>2, EmptyRecords
          DEF CommandInv, Course, BringUp, Upping, TearDown, ByKey
<1>3. Step(c, st)
  BY DEF SaveOne
<1> HIDE DEF st
<1>4. UNCHANGED <<job, serves>> /\ cmd[c] # Idle
  BY DEF SaveOne, workerVars, serviceVars, serving, At
<1> QED BY <1>2, <1>3, <1>4, PlainStep, SameServices, SavedTunnels, SameWorkers
        DEF SaveOne, IInv

(* A command that ends and perhaps saves what it had.                      *)
LEMMA EndKeepsIInv ==
  ASSUME IInv, NEW c \in Command, cmd[c] # Idle, NEW pc \in Ended, End(c, pc),
         FilesInv', UNCHANGED <<workerVars, serviceVars>>
  PROVE  IInv'
<1>1. Stay
  BY DEF Stay, workerVars, serviceVars, serving
<1>2. CommandsInv'
  BY <1>1, EndKeepsCommands DEF IInv
<1>3. WorkersInv'
  BY FreeNextKeepsWorkers DEF IInv
<1> QED BY <1>2, <1>3, SameServices DEF IInv

LEMMA FinishKeepsIInv ==
  ASSUME IInv, NEW c \in Command, Finish(c)
  PROVE  IInv'
<1>1. CommandInv(cmd[c], job, serves) /\ cmd[c].pc = "open" /\ cmd[c] # Idle
  BY CommandFacts DEF Finish, At
<1>2. UNCHANGED <<job, serves>>
  BY DEF Finish, workerVars, serviceVars, serving
<1>3. FilesInv'
  BY <1>1, <1>2, SavedServices, SameFiles DEF Finish, files, IInv
<1>4. CASE End(c, "done")
  BY <1>1, <1>3, <1>4, EndKeepsIInv DEF Finish, Ended
<1> DEFINE st == [cmd[c] EXCEPT !.pc = "waiting"]
<1>5. CASE cmd[c].op = "up" /\ Step(c, st)
  <2>1. CommandInv(st, job, serves)
    BY <1>1, <1>5 DEF CommandInv, CommandState, Course, Upping, TearDown, ByKey
  <2> HIDE DEF st
  <2> QED BY <1>3, <1>5, <2>1, PlainStep, SameServices, SameWorkers DEF Finish, IInv
<1> QED BY <1>4, <1>5 DEF Finish

LEMMA WakeKeepsIInv ==
  ASSUME IInv, NEW c \in Command, Wake(c)
  PROVE  IInv'
<1> DEFINE st == [cmd[c] EXCEPT !.pc = "teardown"]
<1>1. CommandInv(cmd[c], job, serves) /\ cmd[c].pc = "waiting"
  BY CommandFacts DEF Wake, At
<1>2. CommandInv(st, job, serves)
  BY <1>1 DEF CommandInv, CommandState, Course, Upping, TearDown, ByKey
<1>3. Step(c, st)
  BY DEF Wake
<1> HIDE DEF st
<1> QED BY <1>2, <1>3, PlainStep, SameServices, SameFiles, SameWorkers
        DEF Wake, IInv, workerVars

(* stopKey for any routes that are on record.                              *)
LEMMA StopKeysKeepsIInv ==
  ASSUME IInv, NEW c \in Command, NEW R \in SUBSET Records,
         \/ At(c, "teardown") /\ StopKeys(c, R, "saveTorn")
         \/ At(c, "stop") /\ StopKeys(c, R, "saveStop"),
         UNCHANGED <<owner, worker, job, linked, serviceVars, files>>
  PROVE  IInv'
<1>0. PICK pc \in {"saveTorn", "saveStop"} :
         /\ StopKeys(c, R, pc)
         /\ At(c, IF pc = "saveTorn" THEN "teardown" ELSE "stop")
  OBVIOUS
<1> DEFINE left == [r \in Route |-> IF r \in R THEN NoWorker ELSE tunnelsFile[r]]
           st == [cmd[c] EXCEPT !.pc = pc, !.tuns = left]
<1>1. /\ CommandInv(cmd[c], job, serves)
      /\ cmd[c].pc = IF pc = "saveTorn" THEN "teardown" ELSE "stop"
  BY <1>0, CommandFacts DEF At
<1>2. R \in SUBSET Route
  BY DEF Records
<1>3. TunnelRecords(left, job) /\ {tunnelsFile[r] : r \in R} \subseteq Worker
  BY <1>2, StoppedKeepsRecords
<1>4. Step(c, st) /\ signal' = signal \cup {tunnelsFile[r] : r \in R}
  BY <1>0 DEF StopKeys
<1>5. signal' \subseteq Worker
  BY <1>3, <1>4 DEF IInv, WorkersInv, WorkersTypeOK
<1> HIDE DEF left
<1>6. CommandInv(st, job, serves)
  BY <1>1, <1>3
  DEF CommandInv, CommandState, TunnelRecords, Course, Upping, TearDown, ByKey
<1> HIDE DEF st
<1> QED BY <1>4, <1>5, <1>6, PlainStep, SameServices, SameFiles DEF IInv

LEMMA StopTunnelsKeepsIInv ==
  ASSUME IInv, NEW c \in Command, StopTunnels(c)
  PROVE  IInv'
<1> DEFINE adHoc == {r \in RecordsOf(NoManifest) : cmd[c].op = "down" /\ SameHost(r, c)}
<1>1. RecordsOf(cmd[c].manifest) \cup adHoc \in SUBSET Records
  BY DEF RecordsOf
<1> QED BY <1>1, StopKeysKeepsIInv DEF StopTunnels

LEMMA StopRouteKeepsIInv ==
  ASSUME IInv, NEW c \in Command, StopRoute(c)
  PROVE  IInv'
<1>1. \A r : ToStop(r) \in SUBSET Records
  BY DEF ToStop
<1> QED BY <1>1, StopKeysKeepsIInv DEF StopRoute

LEMMA SaveTornKeepsIInv ==
  ASSUME IInv, NEW c \in Command, SaveTorn(c)
  PROVE  IInv'
<1> DEFINE st == [cmd[c] EXCEPT !.pc = "killServices", !.tuns = NoTunnels]
<1>1. CommandInv(cmd[c], job, serves) /\ cmd[c].pc = "saveTorn"
  BY CommandFacts DEF SaveTorn, At
<1>2. CommandInv(st, job, serves)
  BY <1>1, EmptyRecords
  DEF CommandInv, CommandState, TunnelRecords, Course, Upping, TearDown, ByKey
<1>3. Step(c, st)
  BY DEF SaveTorn
<1> HIDE DEF st
<1>4. UNCHANGED <<job, serves>> /\ cmd[c] # Idle
  BY DEF SaveTorn, workerVars, serviceVars, serving, At
<1> QED BY <1>2, <1>3, <1>4, PlainStep, SameServices, SavedTunnels, SameWorkers
        DEF SaveTorn, IInv

LEMMA KillServicesKeepsIInv ==
  ASSUME IInv, NEW c \in Command, KillServices(c)
  PROVE  IInv'
<1> DEFINE left == [r \in RunRoute |-> IF r \in Runs(c) THEN NoService ELSE servicesFile[r]]
           st == [cmd[c] EXCEPT !.pc = "saveKilled", !.svcs = left]
<1>1. CommandInv(cmd[c], job, serves) /\ cmd[c].pc = "killServices"
  BY CommandFacts DEF KillServices, At
<1>2. ServiceRecords(left, serves)
  BY DEF IInv, FilesInv, ServiceRecords
<1>3. Step(c, st)
  BY DEF KillServices
<1> HIDE DEF left
<1>4. CommandInv(st, job, serves)
  BY <1>1, <1>2
  DEF CommandInv, CommandState, ServiceRecords, Course, Upping, TearDown, ByKey
<1> HIDE DEF st
<1> QED BY <1>3, <1>4, PlainStep, KillGroupsKeepsServices, SameFiles, SameWorkers
        DEF KillServices, IInv, workerVars

(* The ways a command ends before or after its last save.                  *)
LEMMA EndingsKeepIInv ==
  ASSUME IInv, NEW c \in Command,
         \/ OpenFails(c) \/ NothingToStop(c) \/ SaveKilled(c) \/ SaveStop(c)
         \/ Interrupt(c) \/ Kill(c)
  PROVE  IInv'
<1>1. cmd[c] # Idle /\ UNCHANGED <<workerVars, serviceVars>>
  BY DEF OpenFails, NothingToStop, SaveKilled, SaveStop, Interrupt, Kill, Running, At
<1>2. UNCHANGED <<job, serves>>
  BY <1>1 DEF workerVars, serviceVars, serving
<1>3. FilesInv'
  BY <1>1, <1>2, SavedTunnels, SavedServices, SameFiles
  DEF OpenFails, NothingToStop, SaveKilled, SaveStop, Interrupt, Kill, IInv, files
<1>4. \E pc \in Ended : End(c, pc)
  BY DEF OpenFails, NothingToStop, SaveKilled, SaveStop, Interrupt, Kill, Ended
<1> QED BY <1>1, <1>3, <1>4, EndKeepsIInv

-----------------------------------------------------------------------------
(* All steps.                                                              *)
LEMMA InitIInv == Init => IInv
<1> SUFFICES ASSUME Init PROVE IInv
  OBVIOUS
<1>1. WorkersInv
  BY InitWorkersInv DEF Init
<1>2. ServicesInv /\ FilesInv /\ CommandsInv
  BY EmptyRecords
  DEF Init, ServicesInv, FilesInv, CommandsInv, PhasesOfService
<1> QED BY <1>1, <1>2 DEF IInv

(* No step of the system breaks the invariant.                             *)
LEMMA NextKeepsIInv == IInv /\ [Next]_vars => IInv'
<1> SUFFICES ASSUME IInv, [Next]_vars PROVE IInv'
  OBVIOUS
<1>1. ASSUME NEW c \in Command, CommandStep(c) PROVE IInv'
  BY <1>1, LoadServicesKeepsIInv, KillOldKeepsIInv, StopOldKeepsIInv,
     SaveStoppedKeepsIInv, ReclaimKeepsIInv, SpawnServiceKeepsIInv,
     SpawnFailsKeepsIInv, SaveServicesKeepsIInv, OpenKeepsIInv, SaveOneKeepsIInv,
     FinishKeepsIInv, WakeKeepsIInv, StopTunnelsKeepsIInv, SaveTornKeepsIInv,
     KillServicesKeepsIInv, StopRouteKeepsIInv, EndingsKeepIInv
  DEF CommandStep, ChildExits
<1>2. ASSUME NEW s \in Service, ServiceExits(s) \/ ListensAgain(s) PROVE IInv'
  <2>1. ServicesInv' /\ UNCHANGED <<workerVars, files, cmd, serves>>
    BY <1>2
    DEF ServiceExits, ListensAgain, Silent, IInv, ServicesInv, PhasesOfService, serving
  <2>2. Stay
    BY <2>1 DEF Stay, workerVars
  <2>3. WorkersInv'
    BY <2>1, FreeNextKeepsWorkers DEF IInv
  <2> QED BY <2>1, <2>2, <2>3, FilesStay, SameCommands DEF IInv
<1>3. CASE WorkersNext /\ UNCHANGED <<serviceVars, files, cmd, history>>
  <2>1. UNCHANGED job
    BY <1>3 DEF WorkersNext, WorkerStep, FirstDial, Notice, Redial, Stop, Drop,
                Release, RelayRestarts
  <2>2. Stay
    BY <1>3, <2>1 DEF Stay, serviceVars, serving
  <2> QED BY <1>3, <2>2, WorkersNextKeepsWorkers, SameServices, FilesStay, SameCommands
          DEF IInv
<1>4. CASE UNCHANGED vars
  <2>1. UNCHANGED <<workerVars, serviceVars, files, cmd>> /\ Stay
    BY <1>4 DEF vars, Stay, workerVars, serviceVars, serving
  <2> QED BY <2>1, FreeNextKeepsWorkers, SameServices, FilesStay, SameCommands DEF IInv
<1> QED BY <1>1, <1>2, <1>3, <1>4, BeginKeepsIInv, EndingsKeepIInv DEF Next

(* Files and copies tell of workers and services by the routes these were *)
(* started for, wherever the commands that wrote them were cut short.      *)
THEOREM LifecycleInvariant == Spec => []IInv
  BY InitIInv, NextKeepsIInv, PTL DEF Spec

(* Under the commands, too, a live session owns its worker's route.        *)
THEOREM LifecycleLinkedIsRouted == Spec => []LinkedIsRouted
<1>1. IInv => LinkedIsRouted
  BY DEF IInv, WorkersInv
<1> QED BY <1>1, LifecycleInvariant, PTL

(* Commands start and signal workers; routes are claimed and given up by   *)
(* the workers only.                                                       *)
LEMMA CommandsLeaveRoutes ==
  ASSUME NEW c \in Command,
         \/ BeginUp(c) \/ BeginDown(c) \/ BeginStart(c) \/ BeginStop(c)
         \/ CommandStep(c) \/ Interrupt(c) \/ Kill(c)
  PROVE  UNCHANGED owner
<1>1. BeginUp(c) \/ BeginDown(c) \/ BeginStart(c) \/ BeginStop(c) => UNCHANGED owner
  BY Zenon DEF BeginUp, BeginDown, BeginStart, BeginStop, Begin, workerVars
<1>2. LoadServices(c) \/ KillOld(c) \/ StopOld(c) \/ SaveStopped(c) \/ Reclaim(c)
      => UNCHANGED owner
  BY Zenon DEF LoadServices, KillOld, StopOld, SaveStopped, Reclaim, workerVars
<1>3. SpawnService(c) \/ SpawnFails(c) \/ SaveServices(c) \/ Open(c) \/ OpenFails(c)
      => UNCHANGED owner
  BY Zenon DEF SpawnService, SpawnFails, SaveServices, Open, Spawn, OpenFails, workerVars
<1>4. SaveOne(c) \/ Finish(c) \/ Wake(c) \/ ChildExits(c) => UNCHANGED owner
  BY Zenon DEF SaveOne, Finish, Wake, ChildExits, workerVars
<1>5. \/ StopTunnels(c) \/ SaveTorn(c) \/ KillServices(c) \/ SaveKilled(c)
      \/ StopRoute(c) \/ NothingToStop(c) \/ SaveStop(c)
      => UNCHANGED owner
  BY DEF StopTunnels, SaveTorn, KillServices, SaveKilled, StopRoute, NothingToStop,
         SaveStop, workerVars
<1>6. Interrupt(c) \/ Kill(c) => UNCHANGED owner
  BY DEF Interrupt, Kill, workerVars
<1> QED BY <1>1, <1>2, <1>3, <1>4, <1>5, <1>6 DEF CommandStep

(* Whatever up, down, start and stop do to them, however these overlap and *)
(* are cut short: what the relay keeps for the workers is RouteDirectory.  *)
THEOREM LifecycleImplementsDirectory == Spec => Directory!Spec
<1>1. Init => Directory!Init
  BY DEF Init, InitWorkers, Directory!Init, Directory!Routes, Route
<1>2. IInv /\ [Next]_vars => [Directory!Next]_owner
  <2> SUFFICES ASSUME IInv, [Next]_vars PROVE [Directory!Next]_owner
    OBVIOUS
  <2>1. CASE WorkersNext
    BY <2>1, FreeStepsClaim DEF IInv, FreeNext
  <2>2. ASSUME NEW s \in Service, ServiceExits(s) \/ ListensAgain(s)
        PROVE  UNCHANGED owner
    BY <2>2 DEF ServiceExits, ListensAgain, workerVars
  <2>3. CASE UNCHANGED vars
    BY <2>3 DEF vars, workerVars
  <2> QED BY <2>1, <2>2, <2>3, CommandsLeaveRoutes DEF Next
<1> QED BY <1>1, <1>2, LifecycleInvariant, PTL DEF Spec, Directory!Spec

-----------------------------------------------------------------------------
(* What a step may end.                                                    *)

(* The workers that c signals and the services it ends are its own.        *)
Own(c) ==
    /\ \A w \in signal' \ signal : MayStop(c, w)
    /\ \A s \in Service :
          service[s] # "unborn" /\ service'[s] # service[s] => MayKill(c, s)

Disturbs(c) == cmd[c] # Idle /\ cmd'[c] # cmd[c]

(* Only the command that takes the step changes.                           *)
LEMMA OneMoves ==
  ASSUME CommandsInv, NEW c \in Command, NEW d \in Command,
         CommandStep(c) \/ Interrupt(c) \/ Kill(c), cmd'[d] # cmd[d]
  PROVE  d = c
<1>1. \E st : Step(c, st)
  BY DEF CommandStep, LoadServices, KillOld, StopOld, SaveStopped, Reclaim,
         SpawnService, SpawnFails, SaveServices, Open, OpenFails, SaveOne, Finish,
         Wake, ChildExits, StopTunnels, StopKeys, SaveTorn, KillServices,
         SaveKilled, StopRoute, NothingToStop, SaveStop, Interrupt, Kill, End
<1> QED BY <1>1 DEF Step, CommandsInv

(* Ends nothing.                                                           *)
LEMMA HarmlessIsOwn ==
  ASSUME NEW d, UNCHANGED <<signal, service>>
  PROVE  Own(d)
  BY DEF Own

(* A kill of the groups in S ends no other.                                *)
LEMMA KillGroupsEnds ==
  ASSUME NEW S, KillGroups(S), NEW s \in Service,
         service'[s] # service[s]
  PROVE  s \in S
  BY DEF KillGroups

(* The services a command ends serve its routes or hold its ports.         *)
LEMMA KillOldIsOwn ==
  ASSUME IInv, NEW c \in Command, KillOld(c)
  PROVE  Own(c)
<1>1. /\ CommandInv(cmd[c], job, serves) /\ cmd[c].pc = "killOld"
      /\ cmd[c].manifest \in Manifest => Runs(c) = RoutesOf[cmd[c].manifest] \cap RunRoute
  BY CommandFacts DEF KillOld, At
<1>2. PICK r \in cmd[c].todo : KillGroups({cmd[c].svcs[r]})
  BY DEF KillOld
<1>3. r \in Runs(c)
  BY <1>1 DEF CommandInv, Course, Upping
<1>4. ASSUME NEW s \in Service, service'[s] # service[s]
      PROVE  MayKill(c, s)
  <2>1. s = cmd[c].svcs[r]
    BY <1>2, <1>4, KillGroupsEnds
  <2>2. serves[s] = r
    BY <1>1, <1>3, <2>1, LifecycleAssumption DEF CommandInv, ServiceRecords, Runs
  <2> QED BY <1>3, <2>2 DEF MayKill, Runs
<1> QED BY <1>4 DEF Own, KillOld, workerVars

LEMMA KillServicesIsOwn ==
  ASSUME IInv, NEW c \in Command, KillServices(c)
  PROVE  Own(c)
<1>1. ASSUME NEW s \in Service, service'[s] # service[s]
      PROVE  MayKill(c, s)
  <2>1. PICK r \in Runs(c) : s = servicesFile[r]
    BY <1>1, KillGroupsEnds DEF KillServices
  <2>2. serves[s] = r
    BY <2>1, LifecycleAssumption DEF IInv, FilesInv, ServiceRecords, Runs
  <2> QED BY <2>1, <2>2 DEF MayKill, Runs
<1> QED BY <1>1 DEF Own, KillServices, workerVars

LEMMA ReclaimIsOwn ==
  ASSUME IInv, NEW c \in Command, Reclaim(c)
  PROVE  Own(c)
<1>1. ASSUME NEW s \in Service, service'[s] # service[s]
      PROVE  \E r \in Runs(c) : port[s] = cmd[c].ports[r]
  BY <1>1 DEF Reclaim, ReclaimPorts, Listens
<1> QED BY <1>1 DEF Own, Reclaim, workerVars, MayKill

(* A worker on record was started for the route it is recorded with.       *)
LEMMA RecordedJob ==
  ASSUME IInv, NEW r \in Records
  PROVE  r \in Route /\ job[tunnelsFile[r]] = r
  BY DEF IInv, FilesInv, TunnelRecords, Records

(* The workers it signals are its manifest's, or were asked for.           *)
LEMMA StopOldIsOwn ==
  ASSUME IInv, NEW c \in Command, StopOld(c)
  PROVE  Own(c)
<1>1. cmd[c].op \in {"up", "up -d"}
  BY CommandFacts DEF StopOld, At, CommandInv, Course, Upping
<1>2. \A w \in signal' \ signal : path[w] = cmd[c].manifest
  BY DEF StopOld, RecordsOf
<1> QED BY <1>1, <1>2 DEF Own, MayStop, StopOld, serviceVars

LEMMA StopTunnelsIsOwn ==
  ASSUME IInv, NEW c \in Command, StopTunnels(c)
  PROVE  Own(c)
<1> DEFINE adHoc == {r \in RecordsOf(NoManifest) : cmd[c].op = "down" /\ SameHost(r, c)}
<1>1. cmd[c].op \in {"up", "down"}
  BY CommandFacts DEF StopTunnels, At, CommandInv, Course, TearDown
<1>2. ASSUME NEW w \in signal' \ signal PROVE MayStop(c, w)
  <2>1. PICK r \in RecordsOf(cmd[c].manifest) \cup adHoc : w = tunnelsFile[r]
    BY <1>2 DEF StopTunnels, StopKeys
  <2>2. CASE r \in RecordsOf(cmd[c].manifest)
    BY <1>1, <2>1, <2>2 DEF MayStop, RecordsOf
  <2>3. CASE r \in adHoc
    <3>1. job[w] = r
      BY <2>1, <2>3, RecordedJob DEF RecordsOf
    <3> QED BY <2>1, <2>3, <3>1 DEF MayStop, RecordsOf
  <2> QED BY <2>1, <2>2, <2>3
<1> QED BY <1>2 DEF Own, StopTunnels, serviceVars

LEMMA StopRouteIsOwn ==
  ASSUME IInv, NEW c \in Command, StopRoute(c)
  PROVE  Own(c)
<1>1. cmd[c].op = "stop"
  BY CommandFacts DEF StopRoute, At, CommandInv, Course, ByKey
<1>2. PICK r \in cmd[c].todo : StopKeys(c, ToStop(r), "saveStop")
  BY DEF StopRoute
<1>3. ASSUME NEW w \in signal' \ signal PROVE MayStop(c, w)
  <2>1. PICK q \in ToStop(r) : w = tunnelsFile[q]
    BY <1>2, <1>3 DEF StopKeys
  <2>2. /\ q \in Records
        /\ q[1] = r[1] /\ r[2] \in {Root, q[2]}
    BY <2>1 DEF ToStop
  <2>3. job[w] = q
    BY <2>1, <2>2, RecordedJob
  <2> QED BY <1>1, <2>2, <2>3 DEF MayStop
<1> QED BY <1>3 DEF Own, StopRoute, serviceVars

(* Every step of a command ends only what is its own.                      *)
LEMMA CommandStepIsOwn ==
  ASSUME IInv, NEW c \in Command, CommandStep(c) \/ Interrupt(c) \/ Kill(c)
  PROVE  Own(c)
<1>1. CASE SpawnService(c) \/ SpawnFails(c)
  <2>1. \/ UNCHANGED service
        \/ \E s \in Service : \E r, p, st : NewGroup(s, r, p, c, st)
    BY <1>1, GroupOfSpawn DEF SpawnService, SpawnFails, serviceVars
  <2>2. ASSUME NEW s \in Service, NEW r, NEW p, NEW st, NewGroup(s, r, p, c, st)
        PROVE  /\ service[s] = "unborn"
               /\ \A t \in Service \ {s} : service'[t] = service[t]
    BY <2>2 DEF NewGroup, IInv, ServicesInv
  <2> QED BY <1>1, <2>1, <2>2 DEF Own, SpawnService, SpawnFails, workerVars
<1>2. CASE \/ LoadServices(c) \/ SaveStopped(c) \/ SaveServices(c)
           \/ Open(c) \/ OpenFails(c) \/ SaveOne(c) \/ Finish(c)
           \/ Wake(c) \/ ChildExits(c) \/ SaveTorn(c) \/ SaveKilled(c)
           \/ NothingToStop(c) \/ SaveStop(c) \/ Interrupt(c) \/ Kill(c)
  <2>1. UNCHANGED <<signal, service>>
    BY <1>2
    DEF LoadServices, SaveStopped, SaveServices, Open, Spawn, OpenFails,
        SaveOne, Finish, Wake, ChildExits, SaveTorn, SaveKilled, NothingToStop,
        SaveStop, Interrupt, Kill, workerVars, serviceVars
  <2> QED BY <2>1, HarmlessIsOwn
<1> QED BY <1>1, <1>2, KillOldIsOwn, StopOldIsOwn, ReclaimIsOwn, StopTunnelsIsOwn,
           KillServicesIsOwn, StopRouteIsOwn
        DEF CommandStep

(* However commands overlap and wherever they are cut short, none signals  *)
(* a worker or ends a service that is not its own: it may work with copies *)
(* of the files that are out of date, but what was started for a route     *)
(* stays with it, and the identities in the files are never used again.    *)
THEOREM LifecycleOnlyItsOwn == Spec => OnlyItsOwn
<1> DEFINE Act == \A c \in Command : cmd[c] # Idle /\ cmd'[c] # cmd[c] =>
          /\ \A w \in signal' \ signal : MayStop(c, w)
          /\ \A s \in Service :
                service[s] # "unborn" /\ service'[s] # service[s] => MayKill(c, s)
<1>1. ASSUME IInv, Next, NEW c \in Command, Disturbs(c)
      PROVE  Own(c)
  <2>1. ASSUME NEW d \in Command, CommandStep(d) \/ Interrupt(d) \/ Kill(d)
        PROVE  Own(c)
    BY <1>1, <2>1, OneMoves, CommandStepIsOwn DEF IInv, Disturbs
  <2>2. ASSUME NEW d \in Command,
               BeginUp(d) \/ BeginDown(d) \/ BeginStart(d) \/ BeginStop(d)
        PROVE  Own(c)
    <3>1. UNCHANGED <<workerVars, serviceVars>>
      BY <2>2 DEF BeginUp, BeginDown, BeginStart, BeginStop, Begin
    <3> QED BY <3>1, HarmlessIsOwn DEF workerVars, serviceVars
  <2>3. ASSUME NEW s \in Service, ServiceExits(s) \/ ListensAgain(s) PROVE FALSE
    BY <1>1, <2>3 DEF ServiceExits, ListensAgain, Disturbs
  <2>4. CASE UNCHANGED cmd
    BY <1>1, <2>4 DEF Disturbs
  <2> QED BY <1>1, <2>1, <2>2, <2>3, <2>4 DEF Next
<1>2. IInv /\ [Next]_vars => [Act]_vars
  BY <1>1 DEF Disturbs, Own
<1> QED BY <1>2, LifecycleInvariant, PTL DEF Spec, OnlyItsOwn

-----------------------------------------------------------------------------
(* One command at a time, none of them cut short.                          *)

Orderly == kills = 0 /\ ~overlapped

(* Between Load and Save the copy is what counts.                          *)
Saving == {"saveStopped", "saveOne", "saveTorn", "saveStop"}
Saves(c) == cmd[c] # Idle /\ cmd[c].pc \in Saving

Alone == ~overlapped => \A c, d \in Command : Running(c) /\ Running(d) => c = d

(* A worker nobody has told to stop is on record under its route.          *)
OnRecord ==
    \A w \in Worker : worker[w] \in Live /\ w \notin signal =>
        /\ (\A c \in Command : ~Saves(c)) => tunnelsFile[job[w]] = w
        /\ \A c \in Command : Saves(c) => cmd[c].tuns[job[w]] = w

OrderInv ==
    /\ overlapped \in BOOLEAN /\ kills \in Nat
    /\ Alone
    /\ Orderly => OnRecord

(* Two such workers of one route would share its record.                   *)
LEMMA OnRecordOneWorker == OrderInv => OneWorkerPerRoute
  BY DEF OrderInv, Orderly, OnRecord, OneWorkerPerRoute

(* The others stay where they are while c takes a step.                    *)
StepOf(c) ==
    /\ Running(c) /\ cmd[c] \in CommandState
    /\ \A d \in Command \ {c} : cmd'[d] = cmd[d]
    /\ UNCHANGED <<last, overlapped, kills>>

LEMMA OthersDoNotSave ==
  ASSUME Alone, ~overlapped, NEW c \in Command, Running(c),
         NEW d \in Command, d # c
  PROVE  ~Saves(d)
  BY DEF Alone, Saves, Saving, Running, Ended

LEMMA StepKeepsAlone ==
  ASSUME Alone, NEW c \in Command, StepOf(c)
  PROVE  Alone'
  BY DEF Alone, Running, StepOf

(* A command that neither saves nor is about to.                           *)
LEMMA PlainStepOnRecord ==
  ASSUME Alone, Orderly, OnRecord, NEW c \in Command, StepOf(c),
         cmd[c].pc \notin Saving, cmd'[c].pc \notin Saving,
         UNCHANGED <<worker, job, signal, tunnelsFile>>
  PROVE  OnRecord'
<1>1. \A d \in Command : ~Saves(d) /\ ~Saves(d)'
  BY OthersDoNotSave DEF Saves, Orderly, StepOf
<1> QED BY <1>1 DEF OnRecord

(* The copy becomes the file.                                              *)
LEMMA SaveOnRecord ==
  ASSUME Alone, Orderly, OnRecord, NEW c \in Command, StepOf(c),
         cmd[c].pc \in Saving, cmd'[c].pc \notin Saving,
         tunnelsFile' = cmd[c].tuns, UNCHANGED <<worker, job, signal>>
  PROVE  OnRecord'
<1>1. \A d \in Command : ~Saves(d)'
  BY OthersDoNotSave DEF Saves, Orderly, StepOf
<1>2. Saves(c)
  BY DEF Saves, Running, StepOf
<1> QED BY <1>1, <1>2 DEF OnRecord

(* The records of the workers that are told to stop are left out.          *)
LEMMA StopOnRecord ==
  ASSUME IInv, Alone, Orderly, OnRecord, NEW c \in Command, StepOf(c),
         cmd[c].pc \notin Saving, NEW R,
         cmd'[c] # Idle, cmd'[c].pc \in Saving,
         cmd'[c].tuns = [r \in Route |-> IF r \in R THEN NoWorker ELSE tunnelsFile[r]],
         signal' = signal \cup {tunnelsFile[r] : r \in R},
         UNCHANGED <<worker, job>>
  PROVE  OnRecord'
<1>1. \A d \in Command : ~Saves(d) /\ (Saves(d)' <=> d = c)
  BY OthersDoNotSave DEF Saves, Orderly, StepOf
<1>2. ASSUME NEW w \in Worker, worker[w] \in Live, w \notin signal'
      PROVE  cmd'[c].tuns[job[w]] = w
  <2>1. job[w] \in Route
    BY <1>2, WorkersAssumption DEF IInv, WorkersInv, WorkersTypeOK, Live
  <2>2. tunnelsFile[job[w]] = w
    BY <1>1, <1>2 DEF OnRecord
  <2>3. job[w] \notin R
    BY <1>2, <2>2
  <2> QED BY <2>1, <2>2, <2>3
<1> QED BY <1>1, <1>2 DEF OnRecord

(* A step of a running command.                                            *)
LEMMA StepIsOf ==
  ASSUME IInv, NEW c \in Command, CommandStep(c)
  PROVE  StepOf(c)
<1>1. cmd[c] # Idle /\ CommandInv(cmd[c], job, serves) /\ Running(c)
  <2>1. cmd[c] # Idle /\ Running(c)
    BY DEF CommandStep, LoadServices, KillOld, StopOld, SaveStopped, Reclaim,
         SpawnService, SpawnFails, SaveServices, Open, OpenFails, SaveOne, Finish,
         Wake, ChildExits, StopTunnels, StopKeys, SaveTorn, KillServices,
         SaveKilled, StopRoute, NothingToStop, SaveStop, At, Running, Ended
  <2> QED BY <2>1, CommandFacts
<1>2. \A d \in Command \ {c} : cmd'[d] = cmd[d]
  BY OneMoves DEF IInv
<1>3. UNCHANGED <<last, overlapped, kills>>
  BY DEF CommandStep, LoadServices, KillOld, StopOld, SaveStopped, Reclaim,
         SpawnService, SpawnFails, SaveServices, Open, OpenFails, SaveOne, Finish,
         Wake, ChildExits, StopTunnels, SaveTorn, KillServices,
         SaveKilled, StopRoute, NothingToStop, SaveStop, history
<1> QED BY <1>1, <1>2, <1>3 DEF StepOf, CommandInv

(* What Step leaves behind.                                                *)
LEMMA Stepped ==
  ASSUME IInv, NEW c \in Command, NEW st, Step(c, st)
  PROVE  cmd'[c] = st
  BY DEF IInv, CommandsInv, Step

(* What the provers need to know of a command's state to edit one.         *)
LEMMA HasFields ==
  ASSUME NEW st \in CommandState
  PROVE  DOMAIN st = {"op", "manifest", "pc", "svcs", "tuns", "ports", "todo"}
  BY DEF CommandState

LEMMA PlainStepsOnRecord ==
  ASSUME IInv, OrderInv, Orderly, NEW c \in Command,
         \/ LoadServices(c) \/ KillOld(c) \/ Reclaim(c) \/ SpawnService(c)
         \/ SpawnFails(c) \/ SaveServices(c) \/ OpenFails(c) \/ Finish(c)
         \/ Wake(c) \/ KillServices(c) \/ SaveKilled(c) \/ NothingToStop(c)
  PROVE  OnRecord'
<1>1. StepOf(c)
  BY StepIsOf DEF CommandStep
<1>2. cmd[c].pc \notin Saving
  BY DEF LoadServices, KillOld, Reclaim, SpawnService, SpawnFails, SaveServices,
         OpenFails, Finish, Wake, KillServices, SaveKilled, NothingToStop, At, Saving
<1>3. UNCHANGED <<worker, job, signal, tunnelsFile>>
  BY DEF LoadServices, KillOld, Reclaim, SpawnService, SpawnFails, SaveServices,
         OpenFails, Finish, Wake, KillServices, SaveKilled, NothingToStop,
         workerVars, files
<1>4. CASE \E pc \in Ended : End(c, pc)
  <2>1. cmd'[c].pc \in Ended
    BY <1>1, <1>4, Stepped, HasFields DEF End, StepOf
  <2> QED BY <1>1, <1>2, <1>3, <2>1, PlainStepOnRecord DEF OrderInv, Ended, Saving
<1>5. CASE \/ LoadServices(c) \/ Reclaim(c) \/ SaveServices(c) \/ Wake(c)
           \/ KillServices(c) \/ Step(c, [cmd[c] EXCEPT !.pc = "waiting"])
  <2>1. cmd'[c].pc \in {"killOld", "spawn", "open", "teardown", "saveKilled", "waiting"}
    <3>1. cmd[c] \in CommandState
      BY <1>1 DEF StepOf
    <3>2. CASE LoadServices(c) \/ Reclaim(c) \/ SaveServices(c)
      BY <3>1, <3>2, Stepped, HasFields DEF LoadServices, Reclaim, SaveServices
    <3>3. CASE Wake(c) \/ KillServices(c) \/ Step(c, [cmd[c] EXCEPT !.pc = "waiting"])
      BY <3>1, <3>3, Stepped, HasFields DEF Wake, KillServices
    <3> QED BY <1>5, <3>2, <3>3
  <2> QED BY <1>1, <1>2, <1>3, <2>1, PlainStepOnRecord DEF OrderInv, Saving
<1>6. CASE KillOld(c) \/ SpawnService(c) \/ SpawnFails(c)
  <2>1. cmd'[c].pc = cmd[c].pc
    BY <1>1, <1>6, Stepped, HasFields DEF StepOf, KillOld, SpawnService, SpawnFails
  <2> QED BY <1>1, <1>2, <1>3, <2>1, PlainStepOnRecord DEF OrderInv
<1> QED BY <1>4, <1>5, <1>6 DEF OpenFails, SaveKilled, NothingToStop, Finish, Ended

LEMMA SaveStepsOnRecord ==
  ASSUME IInv, OrderInv, Orderly, NEW c \in Command,
         SaveStopped(c) \/ SaveOne(c) \/ SaveTorn(c) \/ SaveStop(c)
  PROVE  OnRecord'
<1>1. StepOf(c)
  BY StepIsOf DEF CommandStep
<1>2. /\ cmd[c].pc \in Saving /\ tunnelsFile' = cmd[c].tuns
      /\ UNCHANGED <<worker, job, signal>>
  BY DEF SaveStopped, SaveOne, SaveTorn, SaveStop, At, Saving, workerVars
<1>3. cmd'[c].pc \in {"reclaim", "open", "killServices", "done"}
  <2>1. CASE SaveStopped(c)
    BY <1>1, <2>1, Stepped, HasFields DEF StepOf, SaveStopped
  <2>2. CASE SaveOne(c)
    BY <1>1, <2>2, Stepped, HasFields DEF StepOf, SaveOne
  <2>3. CASE SaveTorn(c)
    BY <1>1, <2>3, Stepped, HasFields DEF StepOf, SaveTorn
  <2>4. CASE SaveStop(c)
    BY <1>1, <2>4, Stepped, HasFields DEF StepOf, SaveStop, End
  <2> QED BY <2>1, <2>2, <2>3, <2>4
<1> QED BY <1>1, <1>2, <1>3, SaveOnRecord DEF OrderInv, Saving

LEMMA StopStepsOnRecord ==
  ASSUME IInv, OrderInv, Orderly, NEW c \in Command,
         StopOld(c) \/ StopTunnels(c) \/ StopRoute(c)
  PROVE  OnRecord'
<1>1. StepOf(c) /\ cmd[c].pc \notin Saving
  BY StepIsOf DEF CommandStep, StopOld, StopTunnels, StopRoute, At, Saving
<1>2. UNCHANGED <<worker, job>>
  BY DEF StopOld, StopTunnels, StopRoute
<1>3. PICK pc \in Saving : \E R :
         /\ signal' = signal \cup {tunnelsFile[r] : r \in R}
         /\ Step(c, [cmd[c] EXCEPT !.pc = pc,
               !.tuns = [r \in Route |-> IF r \in R THEN NoWorker ELSE tunnelsFile[r]]])
  <2>1. CASE StopOld(c)
    BY <2>1 DEF StopOld, Saving
  <2>2. CASE StopTunnels(c)
    BY <2>2 DEF StopTunnels, StopKeys, Saving
  <2>3. CASE StopRoute(c)
    BY <2>3 DEF StopRoute, StopKeys, Saving
  <2> QED BY <2>1, <2>2, <2>3
<1>4. PICK R :
         /\ signal' = signal \cup {tunnelsFile[r] : r \in R}
         /\ Step(c, [cmd[c] EXCEPT !.pc = pc,
               !.tuns = [r \in Route |-> IF r \in R THEN NoWorker ELSE tunnelsFile[r]]])
  BY <1>3
<1> DEFINE left == [r \in Route |-> IF r \in R THEN NoWorker ELSE tunnelsFile[r]]
           st == [cmd[c] EXCEPT !.pc = pc, !.tuns = left]
<1>5. left \in [Route -> Worker \cup {NoWorker}]
  BY DEF IInv, FilesInv, TunnelRecords
<1> HIDE DEF left
<1>6. st \in CommandState /\ st.pc = pc /\ st.tuns = left
  BY <1>1, <1>5 DEF StepOf, CommandState, Saving, BringUp, TearDown, ByKey
<1> HIDE DEF st
<1>7. Step(c, st)
  BY <1>4 DEF st, left
<1>8. cmd'[c] = st /\ st # Idle
  BY <1>6, <1>7, Stepped, IdleAssumption
<1>9. cmd'[c].tuns = [r \in Route |-> IF r \in R THEN NoWorker ELSE tunnelsFile[r]]
  BY <1>6, <1>8 DEF left
<1> QED BY <1>1, <1>2, <1>4, <1>6, <1>8, <1>9, StopOnRecord DEF OrderInv

(* startOne refuses a route whose worker lives, so that the one it starts  *)
(* takes nobody's record.                                                  *)
LEMMA OpenOnRecord ==
  ASSUME IInv, OrderInv, Orderly, NEW c \in Command, Open(c)
  PROVE  OnRecord'
<1>1. StepOf(c) /\ cmd[c].pc = "open"
  BY StepIsOf DEF CommandStep, Open, At
<1>2. PICK r \in cmd[c].todo, w \in Worker :
         /\ ~AliveWorker(tunnelsFile[r])
         /\ Spawn(w, r)
         /\ Step(c, [cmd[c] EXCEPT !.pc = "saveOne", !.todo = @ \ {r},
                                   !.tuns = [tunnelsFile EXCEPT ![r] = w]])
  BY DEF Open
<1> DEFINE tuns == [tunnelsFile EXCEPT ![r] = w]
           st == [cmd[c] EXCEPT !.pc = "saveOne", !.todo = @ \ {r}, !.tuns = tuns]
<1>3. r \in Route /\ tunnelsFile \in [Route -> Worker \cup {NoWorker}]
  BY <1>1 DEF StepOf, CommandState, IInv, FilesInv, TunnelRecords
<1>4. tuns \in [Route -> Worker \cup {NoWorker}]
  BY <1>3
<1> HIDE DEF tuns
<1>5. st \in CommandState /\ st.pc = "saveOne" /\ st.tuns = tuns
  BY <1>1, <1>4 DEF StepOf, CommandState, BringUp
<1> HIDE DEF st
<1>6. Step(c, st)
  BY <1>2 DEF st, tuns
<1>7. cmd'[c] = st /\ st # Idle
  BY <1>5, <1>6, Stepped, IdleAssumption
<1>8. \A d \in Command : ~Saves(d) /\ (Saves(d)' <=> d = c)
  BY <1>1, <1>5, <1>7, OthersDoNotSave DEF OrderInv, Saves, Saving, Orderly, StepOf
<1>9. ASSUME NEW x \in Worker, worker'[x] \in Live, x \notin signal'
      PROVE  cmd'[c].tuns[job'[x]] = x
  <2>1. CASE x = w
    BY <1>2, <1>3, <1>5, <1>7, <2>1
    DEF tuns, Spawn, IInv, WorkersInv, WorkersTypeOK
  <2>2. CASE x # w
    <3>1. worker[x] \in Live /\ x \notin signal /\ job'[x] = job[x]
      BY <1>2, <1>9, <2>2 DEF Spawn, Becomes, IInv, WorkersInv, WorkersTypeOK
    <3>2. tunnelsFile[job[x]] = x /\ job[x] \in Route
      BY <1>8, <3>1, WorkersAssumption
      DEF OnRecord, OrderInv, IInv, WorkersInv, WorkersTypeOK, Live
    <3>3. job[x] # r
      BY <1>2, <3>1, <3>2, WorkersAssumption DEF AliveWorker
    <3> QED BY <1>3, <1>5, <1>7, <3>1, <3>2, <3>3 DEF tuns
  <2> QED BY <2>1, <2>2
<1> QED BY <1>8, <1>9 DEF OnRecord

(* No step of the system disturbs the order.                               *)
LEMMA CommandStepKeepsOrder ==
  ASSUME IInv, OrderInv, NEW c \in Command, CommandStep(c)
  PROVE  OrderInv'
<1>1. StepOf(c)
  BY StepIsOf
<1>2. Alone' /\ (Orderly' => Orderly)
  BY <1>1, StepKeepsAlone DEF OrderInv, Orderly, StepOf
<1>3. Orderly => OnRecord'
  BY PlainStepsOnRecord, SaveStepsOnRecord, StopStepsOnRecord, OpenOnRecord
  DEF CommandStep, ChildExits
<1> QED BY <1>1, <1>2, <1>3 DEF OrderInv, StepOf

(* A command begins: if nobody else runs, nobody saves.                    *)
LEMMA BeginKeepsOrder ==
  ASSUME IInv, OrderInv, NEW c \in Command,
         BeginUp(c) \/ BeginDown(c) \/ BeginStart(c) \/ BeginStop(c)
  PROVE  OrderInv'
<1>1. \E op, m, f, routes : \E pc \in {"loadServices", "teardown", "open", "stop"} :
         Begin(c, op, m, pc, f, routes)
  BY DEF BeginUp, BeginDown, BeginStart, BeginStop
<1>2. /\ cmd'[c].pc \in {"loadServices", "teardown", "open", "stop"}
      /\ \A d \in Command \ {c} : cmd'[d] = cmd[d]
      /\ overlapped' = (overlapped \/ \E d \in Command : Running(d))
      /\ UNCHANGED <<worker, job, signal, tunnelsFile, kills>>
  BY <1>1 DEF Begin, Step, IInv, CommandsInv, workerVars, files
<1>3. overlapped' \in BOOLEAN
  BY <1>2 DEF OrderInv
<1>4. ~overlapped' => \A d \in Command : ~Running(d) /\ ~overlapped
  BY <1>2 DEF OrderInv
<1>5. Alone'
  BY <1>2, <1>4 DEF Alone, Running
<1>6. ~overlapped' => \A d \in Command : ~Saves(d) /\ ~Saves(d)'
  BY <1>2, <1>4 DEF Running, Saves, Saving, Ended
<1>7. Orderly' => Orderly /\ OnRecord'
  BY <1>2, <1>4, <1>6 DEF OrderInv, Orderly, OnRecord
<1> QED BY <1>2, <1>3, <1>5, <1>7 DEF OrderInv

LEMMA InitOrder == Init => OrderInv
<1> SUFFICES ASSUME Init PROVE OrderInv
  OBVIOUS
<1>1. Alone
  BY DEF Init, Alone, Running
<1>2. OnRecord
  BY DEF Init, InitWorkers, OnRecord, Live
<1> QED BY <1>1, <1>2 DEF Init, OrderInv

LEMMA NextKeepsOrder == IInv /\ OrderInv /\ [Next]_vars => OrderInv'
<1> SUFFICES ASSUME IInv, OrderInv, [Next]_vars PROVE OrderInv'
  OBVIOUS
<1>1. ASSUME NEW c \in Command, Interrupt(c) \/ Kill(c) PROVE OrderInv'
  <2>1. kills' = kills + 1 /\ UNCHANGED overlapped
    BY <1>1 DEF Interrupt, Kill
  <2>2. ~Orderly' /\ kills' \in Nat
    BY <2>1 DEF Orderly, OrderInv
  <2>3. \A d \in Command : Running(d)' => Running(d)
    <3>1. \A d \in Command : d # c => cmd'[d] = cmd[d]
      BY <1>1, OneMoves DEF IInv
    <3> QED BY <1>1, <3>1 DEF Running, Interrupt, Kill
  <2>4. Alone'
    BY <2>1, <2>3 DEF Alone, OrderInv
  <2> QED BY <2>1, <2>2, <2>4 DEF OrderInv
<1>2. ASSUME UNCHANGED <<cmd, overlapped, kills, tunnelsFile, job, signal>>,
             \A w \in Worker : worker'[w] \in Live => worker[w] \in Live
      PROVE  OrderInv'
  BY <1>2 DEF OrderInv, Alone, Orderly, OnRecord, Running, Saves
<1>3. CASE WorkersNext /\ UNCHANGED <<serviceVars, files, cmd, history>>
  <2>1. \A w \in Worker : worker'[w] \in Live => worker[w] \in Live
    BY <1>3
    DEF WorkersNext, WorkerStep, FirstDial, Notice, Redial, Stop, Drop, Release,
        RelayRestarts, Becomes, Live, IInv, WorkersInv, WorkersTypeOK
  <2>2. UNCHANGED <<job, signal>>
    BY <1>3 DEF WorkersNext, WorkerStep, FirstDial, Notice, Redial, Stop, Drop,
                Release, RelayRestarts
  <2> QED BY <1>2, <1>3, <2>1, <2>2 DEF files, history
<1>4. CASE UNCHANGED vars
  BY <1>2, <1>4 DEF vars, workerVars, files, history
<1>5. CASE \E s \in Service : ServiceExits(s) \/ ListensAgain(s)
  BY <1>2, <1>5 DEF ServiceExits, ListensAgain, workerVars, files
<1> QED BY <1>1, <1>3, <1>4, <1>5, CommandStepKeepsOrder, BeginKeepsOrder DEF Next

(* While commands follow each other and none is cut short, a route has at  *)
(* most one worker that was not told to stop: every live one is on record, *)
(* in the file or in the copy of the command that is about to save it.     *)
THEOREM LifecycleOneWorkerPerRoute == Spec => []OneWorkerPerRoute
<1>1. OrderInv => OneWorkerPerRoute
  BY OnRecordOneWorker
<1> QED BY <1>1, InitOrder, NextKeepsOrder, LifecycleInvariant, PTL DEF Spec

-----------------------------------------------------------------------------
(* What commands that follow each other leave behind.                      *)

(* What a command was told to do, and the place it has got to with it.     *)
Task(st) ==
    /\ st.op \in {"up", "up -d"} =>
          /\ st.manifest \in Manifest
          /\ \A r \in RoutesOf[st.manifest] \cap RunRoute :
                Declared[r] # AnyFree => st.ports[r] = Declared[r]
    /\ st.op = "down" => st.pc \in TearDown \cup Ended
    /\ st.pc \in {"open", "saveOne"} =>
          st.todo \subseteq IF st.manifest = NoManifest THEN Route ELSE RoutesOf[st.manifest]

(* A service is of one of the routes roxey spawns for; a manifest's worker *)
(* is on one of its routes.                                                *)
TaskInv ==
    /\ port = [s \in Service |-> port[s]]
    /\ \A s \in Service : service[s] # "unborn" => serves[s] \in RunRoute
    /\ \A w \in Worker : path[w] # NoManifest => job[w] \in RoutesOf[path[w]]
    /\ \A c \in Command : cmd[c] # Idle => Task(cmd[c])

(* Only the newest of them may still run.                                  *)
Newest ==
    /\ last \in Command \cup {NoCommand}
    /\ last \in Command => cmd[last] # Idle
    /\ ~overlapped => \A c \in Command : Running(c) => c = last

IsUp(c) == cmd[c] # Idle /\ cmd[c].op \in {"up", "up -d"}

(* The services in S are on record in f.                                   *)
Known(S, f) == \A s \in S : f[serves[s]] = s

Leaders == {s \in Service : service[s] \in HasLeader}

(* Who listens on a port c pins, but for one who came later: c's own       *)
(* service, and the one on record in f.                                    *)
Pinned(c) ==
    {s \in Service \ late :
        \E r \in Runs(c) : Declared[r] # AnyFree /\ Listens(s, Declared[r])}
Recorded(c, f) == \A s \in Pinned(c) : serves[s] \in Runs(c) /\ f[serves[s]] = s

(* An `up` takes the ports it needs from whoever has them, and what it     *)
(* spawns on them is in its copy of services.json, and later in the file.  *)
Slate(c) ==
    /\ At(c, "spawn") => \A s \in Pinned(c) : serves[s] \notin cmd[c].todo
    /\ IsUp(c) /\ cmd[c].pc \in {"spawn", "open", "saveOne"} => Recorded(c, cmd[c].svcs)
    /\ IsUp(c) /\ (cmd[c].pc \in {"open", "saveOne", "waiting"}
                   \/ (cmd[c].op = "up -d" /\ cmd[c].pc = "done")) =>
          Recorded(c, servicesFile)

SlateInv == ~overlapped => \A c \in Command : c = last => Slate(c)

(* The commands that have a copy of services.json and will save it, and    *)
(* the routes that have no record in it.                                   *)
Carries(c) ==
    \/ IsUp(c) /\ cmd[c].pc \in {"killOld", "saveStopped", "reclaim", "spawn",
                                 "open", "saveOne"}
    \/ At(c, "saveKilled")

Emptied(c) ==
    IF At(c, "killOld") THEN Runs(c) \ cmd[c].todo
    ELSE IF At(c, "saveStopped") \/ At(c, "reclaim") THEN Runs(c)
    ELSE IF At(c, "spawn") THEN cmd[c].todo
    ELSE {}

(* A service whose leader lives is on record: in the file, unless a        *)
(* command is about to save what it spawns, and in the copies.             *)
LedgerAt(c) ==
    /\ ~At(c, "spawn") => Known(Leaders, servicesFile)
    /\ Carries(c) => Known(Leaders, cmd[c].svcs)
    /\ \A r \in Emptied(c) : cmd[c].svcs[r] = NoService

LedgerInv ==
    Orderly =>
        /\ (\A c \in Command : ~Running(c)) => Known(Leaders, servicesFile)
        /\ \A c \in Command : Running(c) => LedgerAt(c)

(* What `down` has stopped on its way.                                     *)
Torn(c) ==
    cmd[c] # Idle /\ cmd[c].op = "down" =>
        /\ cmd[c].pc \in {"saveTorn", "killServices", "saveKilled", "done"} =>
              \A w \in Worker : worker[w] \in Live /\ SameHost(job[w], c) => w \in signal
        /\ cmd[c].pc \in {"saveKilled", "done"} =>
              \A s \in Leaders : serves[s] \notin Mine(c)

TornInv == Orderly => \A c \in Command : c = last => Torn(c)

(* What the processes of a service do by themselves: none gets a leader,   *)
(* and who listens then and did not is late.                               *)
LEMMA ServiceSteps ==
  ASSUME ServicesInv, NEW s \in Service, ServiceExits(s) \/ ListensAgain(s)
  PROVE  /\ Leaders' \subseteq Leaders
         /\ \A x \in Service : service'[x] # "unborn" => service[x] # "unborn"
         /\ \A x \in Service \ late' :
               service'[x] \in HasListener => service[x] \in HasListener /\ x \notin late
         /\ UNCHANGED <<workerVars, serving, files, cmd, last, overlapped, kills>>
<1>1. CASE ServiceExits(s)
  BY <1>1 DEF ServiceExits, StillLate, Silent, HasLeader, HasListener, Leaders,
              ServicesInv, PhasesOfService
<1>2. CASE ListensAgain(s)
  BY <1>2 DEF ListensAgain, HasLeader, HasListener, Leaders, ServicesInv
<1> QED BY <1>1, <1>2

-----------------------------------------------------------------------------
(* Where a step takes the command.                                         *)

Moves(c, pc, svcs, todo) ==
    /\ cmd'[c].op = cmd[c].op /\ cmd'[c].manifest = cmd[c].manifest
    /\ cmd'[c].ports = cmd[c].ports
    /\ cmd'[c].pc = pc /\ cmd'[c].svcs = svcs /\ cmd'[c].todo = todo

Ends(c) == \E pc \in Ended : Moves(c, pc, NoServices, {})

LEMMA EndMoves ==
  ASSUME IInv, NEW c \in Command, cmd[c] \in CommandState, NEW pc, End(c, pc)
  PROVE  Moves(c, pc, NoServices, {})
<1>1. cmd'[c] = [cmd[c] EXCEPT !.pc = pc, !.svcs = NoServices, !.tuns = NoTunnels,
                               !.todo = {}]
  BY Stepped, Zenon DEF End
<1> QED BY <1>1, HasFields DEF Moves

(* The services a step spawns or kills and the files it saves, too.        *)
LEMMA StartingMoves ==
  ASSUME IInv, NEW c \in Command, cmd[c] \in CommandState
  PROVE  /\ LoadServices(c) =>
              Moves(c, "killOld", Pruned(servicesFile),
                    {r \in Runs(c) : Pruned(servicesFile)[r] # NoService})
         /\ \A r : Step(c, [cmd[c] EXCEPT !.svcs[r] = NoService, !.todo = @ \ {r}]) =>
              Moves(c, cmd[c].pc, [cmd[c].svcs EXCEPT ![r] = NoService], cmd[c].todo \ {r})
         /\ StopOld(c) => Moves(c, "saveStopped", cmd[c].svcs, cmd[c].todo)
         /\ SaveStopped(c) => Moves(c, "reclaim", cmd[c].svcs, cmd[c].todo)
         /\ Reclaim(c) => Moves(c, "spawn", cmd[c].svcs, Runs(c))
<1>1. LoadServices(c) =>
              Moves(c, "killOld", Pruned(servicesFile),
                    {r \in Runs(c) : Pruned(servicesFile)[r] # NoService})
  BY Stepped, HasFields DEF LoadServices, Moves
<1>2. ASSUME NEW r, Step(c, [cmd[c] EXCEPT !.svcs[r] = NoService, !.todo = @ \ {r}])
      PROVE  Moves(c, cmd[c].pc, [cmd[c].svcs EXCEPT ![r] = NoService], cmd[c].todo \ {r})
  <2>1. cmd'[c] = [cmd[c] EXCEPT !.svcs[r] = NoService, !.todo = @ \ {r}]
    BY <1>2, Stepped, Zenon
  <2> QED BY <2>1, HasFields DEF Moves
<1>3. ASSUME StopOld(c) PROVE Moves(c, "saveStopped", cmd[c].svcs, cmd[c].todo)
  <2>1. PICK left : Step(c, [cmd[c] EXCEPT !.pc = "saveStopped", !.tuns = left])
    BY <1>3, Zenon DEF StopOld
  <2>2. cmd'[c] = [cmd[c] EXCEPT !.pc = "saveStopped", !.tuns = left]
    BY <2>1, Stepped, Zenon
  <2> QED BY <2>2, HasFields DEF Moves
<1>4. SaveStopped(c) => Moves(c, "reclaim", cmd[c].svcs, cmd[c].todo)
  BY Stepped, HasFields DEF SaveStopped, Moves
<1>5. Reclaim(c) => Moves(c, "spawn", cmd[c].svcs, Runs(c))
  BY Stepped, HasFields DEF Reclaim, Moves
<1> QED BY <1>1, <1>2, <1>3, <1>4, <1>5

LEMMA SpawningMoves ==
  ASSUME IInv, NEW c \in Command, cmd[c] \in CommandState
  PROVE  /\ \A r, s : Step(c, [cmd[c] EXCEPT !.svcs[r] = s, !.todo = @ \ {r}]) =>
              Moves(c, cmd[c].pc, [cmd[c].svcs EXCEPT ![r] = s], cmd[c].todo \ {r})
         /\ \A r : Step(c, [cmd[c] EXCEPT !.todo = @ \ {r}]) =>
              Moves(c, cmd[c].pc, cmd[c].svcs, cmd[c].todo \ {r})
         /\ SaveServices(c) => Moves(c, "open", cmd[c].svcs, Mine(c))
         /\ Open(c) => \E r \in cmd[c].todo :
                          Moves(c, "saveOne", cmd[c].svcs, cmd[c].todo \ {r})
         /\ SaveOne(c) => Moves(c, "open", cmd[c].svcs, cmd[c].todo)
         /\ Finish(c) /\ cmd[c].op = "up" => Moves(c, "waiting", cmd[c].svcs, cmd[c].todo)
<1>1. ASSUME NEW r, NEW s, Step(c, [cmd[c] EXCEPT !.svcs[r] = s, !.todo = @ \ {r}])
      PROVE  Moves(c, cmd[c].pc, [cmd[c].svcs EXCEPT ![r] = s], cmd[c].todo \ {r})
  <2>1. cmd'[c] = [cmd[c] EXCEPT !.svcs[r] = s, !.todo = @ \ {r}]
    BY <1>1, Stepped, Zenon
  <2> QED BY <2>1, HasFields DEF Moves
<1>2. ASSUME NEW r, Step(c, [cmd[c] EXCEPT !.todo = @ \ {r}])
      PROVE  Moves(c, cmd[c].pc, cmd[c].svcs, cmd[c].todo \ {r})
  BY <1>2, Stepped, HasFields DEF Moves
<1>3. ASSUME SaveServices(c)
      PROVE  Moves(c, "open", cmd[c].svcs, Mine(c))
  <2>1. cmd'[c] = [cmd[c] EXCEPT !.pc = "open", !.todo = Mine(c)]
    BY <1>3, Stepped DEF SaveServices
  <2> QED BY <2>1, HasFields DEF Moves
<1>4. ASSUME Open(c)
      PROVE  \E r \in cmd[c].todo : Moves(c, "saveOne", cmd[c].svcs, cmd[c].todo \ {r})
  <2>1. PICK r \in cmd[c].todo, w \in Worker :
           Step(c, [cmd[c] EXCEPT !.pc = "saveOne", !.todo = @ \ {r},
                                  !.tuns = [tunnelsFile EXCEPT ![r] = w]])
    BY <1>4 DEF Open
  <2>2. cmd'[c] = [cmd[c] EXCEPT !.pc = "saveOne", !.todo = @ \ {r},
                                 !.tuns = [tunnelsFile EXCEPT ![r] = w]]
    BY <2>1, Stepped
  <2>3. Moves(c, "saveOne", cmd[c].svcs, cmd[c].todo \ {r})
    BY <2>2, HasFields DEF Moves
  <2> QED BY <2>3
<1>5. SaveOne(c) => Moves(c, "open", cmd[c].svcs, cmd[c].todo)
  BY Stepped, HasFields DEF SaveOne, Moves
<1>6. Finish(c) /\ cmd[c].op = "up" => Moves(c, "waiting", cmd[c].svcs, cmd[c].todo)
  BY Stepped, HasFields DEF Finish, Moves
<1> QED BY <1>1, <1>2, <1>3, <1>4, <1>5, <1>6

LEMMA TearingMoves ==
  ASSUME IInv, NEW c \in Command, cmd[c] \in CommandState
  PROVE  /\ Wake(c) => Moves(c, "teardown", cmd[c].svcs, cmd[c].todo)
         /\ StopTunnels(c) => Moves(c, "saveTorn", cmd[c].svcs, cmd[c].todo)
         /\ SaveTorn(c) => Moves(c, "killServices", cmd[c].svcs, cmd[c].todo)
         /\ KillServices(c) =>
              Moves(c, "saveKilled",
                    [r \in RunRoute |-> IF r \in Runs(c) THEN NoService ELSE servicesFile[r]],
                    cmd[c].todo)
         /\ StopRoute(c) => Moves(c, "saveStop", cmd[c].svcs, cmd[c].todo)
         /\ OpenFails(c) \/ SaveKilled(c) \/ NothingToStop(c) \/ SaveStop(c)
            \/ Interrupt(c) \/ Kill(c) \/ (Finish(c) /\ cmd[c].op # "up") => Ends(c)
<1>1. Wake(c) => Moves(c, "teardown", cmd[c].svcs, cmd[c].todo)
  BY Stepped, HasFields DEF Wake, Moves
<1>0. ASSUME NEW routes, NEW pc, StopKeys(c, routes, pc)
      PROVE  Moves(c, pc, cmd[c].svcs, cmd[c].todo)
  <2> DEFINE left == [r \in Route |-> IF r \in routes THEN NoWorker ELSE tunnelsFile[r]]
  <2>1. Step(c, [cmd[c] EXCEPT !.pc = pc, !.tuns = left])
    BY <1>0 DEF StopKeys
  <2> HIDE DEF left
  <2>2. cmd'[c] = [cmd[c] EXCEPT !.pc = pc, !.tuns = left]
    BY <2>1, Stepped
  <2> QED BY <2>2, HasFields DEF Moves
<1>2. StopTunnels(c) => Moves(c, "saveTorn", cmd[c].svcs, cmd[c].todo)
  BY <1>0 DEF StopTunnels
<1>3. SaveTorn(c) => Moves(c, "killServices", cmd[c].svcs, cmd[c].todo)
  BY Stepped, HasFields DEF SaveTorn, Moves
<1>4. ASSUME KillServices(c)
      PROVE  Moves(c, "saveKilled",
                   [r \in RunRoute |-> IF r \in Runs(c) THEN NoService ELSE servicesFile[r]],
                   cmd[c].todo)
  <2> DEFINE left == [r \in RunRoute |-> IF r \in Runs(c) THEN NoService ELSE servicesFile[r]]
  <2>1. Step(c, [cmd[c] EXCEPT !.pc = "saveKilled", !.svcs = left])
    BY <1>4 DEF KillServices
  <2> HIDE DEF left
  <2>2. cmd'[c] = [cmd[c] EXCEPT !.pc = "saveKilled", !.svcs = left]
    BY <2>1, Stepped, Zenon
  <2>3. Moves(c, "saveKilled", left, cmd[c].todo)
    BY <2>2, HasFields DEF Moves
  <2> QED BY <2>3 DEF left
<1>5. StopRoute(c) => Moves(c, "saveStop", cmd[c].svcs, cmd[c].todo)
  BY <1>0 DEF StopRoute
<1>6. OpenFails(c) \/ SaveKilled(c) \/ NothingToStop(c) \/ SaveStop(c)
      \/ Interrupt(c) \/ Kill(c) \/ (Finish(c) /\ cmd[c].op # "up") => Ends(c)
  BY EndMoves DEF OpenFails, SaveKilled, NothingToStop, SaveStop, Interrupt, Kill,
                  Finish, Ended, Ends
<1> QED BY <1>1, <1>2, <1>3, <1>4, <1>5, <1>6

-----------------------------------------------------------------------------
(* Tasks.                                                                  *)

(* A command takes a step and has its task still.                          *)
LEMMA TaskStays ==
  ASSUME TaskInv, NEW c \in Command, StepOf(c), Task(cmd'[c]),
         UNCHANGED <<worker, job, path, port, serves>>,
         \A s \in Service : service[s] = "unborn" => service'[s] = "unborn"
  PROVE  TaskInv'
<1>1. \A d \in Command : cmd'[d] # Idle => Task(cmd'[d])
  BY DEF TaskInv, StepOf
<1> QED BY <1>1 DEF TaskInv, IInv

(* The steps that keep to the manifest's own routes.                       *)
LEMMA MovesTask ==
  ASSUME NEW c, Task(cmd[c]), NEW pc, NEW svcs, NEW todo, Moves(c, pc, svcs, todo),
         cmd[c].op = "down" => pc \in TearDown \cup Ended,
         pc \notin {"open", "saveOne"}
  PROVE  Task(cmd'[c])
  BY DEF Task, Moves

LEMMA PlainTasks ==
  ASSUME IInv, TaskInv, NEW c \in Command, CommandStep(c), ~Open(c)
  PROVE  Task(cmd'[c])
<1>1. /\ cmd[c] # Idle /\ Task(cmd[c]) /\ CommandInv(cmd[c], job, serves)
      /\ cmd[c] \in CommandState
      /\ Runs(c) \subseteq RunRoute
      /\ cmd[c].op = "down" => cmd[c].pc \in TearDown \cup Ended
  <2>1. cmd[c] # Idle
    BY StepIsOf DEF StepOf, Running
  <2> QED BY <2>1, CommandFacts DEF TaskInv, Task, CommandInv
<1>2. CASE LoadServices(c) \/ StopOld(c) \/ SaveStopped(c) \/ Reclaim(c)
           \/ (Finish(c) /\ cmd[c].op = "up") \/ Wake(c) \/ ChildExits(c) \/ StopRoute(c)
  <2>1. cmd[c].op # "down"
    BY <1>1, <1>2 DEF LoadServices, StopOld, SaveStopped, Reclaim, Wake, ChildExits,
                      StopRoute, At, TearDown, Ended
  <2>2. \E pc : /\ pc \notin {"open", "saveOne"}
                /\ \E svcs, todo : Moves(c, pc, svcs, todo)
    BY <1>1, <1>2, StartingMoves, SpawningMoves, TearingMoves DEF ChildExits
  <2> QED BY <1>1, <2>1, <2>2, MovesTask
<1>3. CASE KillOld(c) \/ SpawnService(c) \/ SpawnFails(c)
  <2>1. cmd[c].op # "down" /\ cmd[c].pc \notin {"open", "saveOne"}
    BY <1>1, <1>3 DEF KillOld, SpawnService, SpawnFails, At, TearDown, Ended
  <2>2. \E svcs, todo : Moves(c, cmd[c].pc, svcs, todo)
    BY <1>1, <1>3, StartingMoves, SpawningMoves DEF KillOld, SpawnService, SpawnFails
  <2> QED BY <1>1, <2>1, <2>2, MovesTask
<1>4. CASE StopTunnels(c) \/ SaveTorn(c) \/ KillServices(c)
  <2>1. \E pc \in TearDown : \E svcs, todo : Moves(c, pc, svcs, todo)
    BY <1>1, <1>4, TearingMoves DEF TearDown
  <2> QED BY <1>1, <2>1, MovesTask DEF TearDown
<1>5. CASE \/ OpenFails(c) \/ SaveKilled(c) \/ NothingToStop(c) \/ SaveStop(c)
           \/ (Finish(c) /\ cmd[c].op # "up")
  <2>1. Ends(c)
    BY <1>1, <1>5, TearingMoves
  <2> QED BY <1>1, <2>1, MovesTask DEF Ends, Ended
<1>6. CASE SaveServices(c)
  <2>1. Moves(c, "open", cmd[c].svcs, Mine(c)) /\ cmd[c].op # "down"
    BY <1>1, <1>6, SpawningMoves DEF SaveServices, At, TearDown, Ended
  <2>2. cmd[c].manifest \in Manifest
    BY <1>1, <1>6 DEF SaveServices, At, CommandInv, Course, Upping
  <2>3. Mine(c) = RoutesOf[cmd[c].manifest]
    BY <2>2, LifecycleAssumption DEF Mine
  <2> QED BY <1>1, <2>1, <2>2, <2>3, LifecycleAssumption DEF Task, Moves
<1>7. CASE SaveOne(c)
  <2>1. Moves(c, "open", cmd[c].svcs, cmd[c].todo) /\ cmd[c].op # "down"
        /\ cmd[c].pc = "saveOne"
    BY <1>1, <1>7, SpawningMoves DEF SaveOne, At, TearDown, Ended
  <2> QED BY <1>1, <2>1 DEF Task, Moves
<1> QED BY <1>2, <1>3, <1>4, <1>5, <1>6, <1>7 DEF CommandStep

LEMMA SpawningTask ==
  ASSUME IInv, TaskInv, NEW c \in Command,
         SpawnService(c) \/ (SpawnFails(c) /\ ~UNCHANGED serviceVars)
  PROVE  TaskInv'
<1>1. StepOf(c) /\ Task(cmd'[c])
  BY StepIsOf, PlainTasks DEF CommandStep, SpawnService, SpawnFails, Open, At
<1>2. CommandInv(cmd[c], job, serves) /\ cmd[c].pc = "spawn"
  BY <1>1, CommandFacts DEF StepOf, Running, SpawnService, SpawnFails, At
<1>3. PICK r \in cmd[c].todo, s \in Service, st \in {"up", "quiet", "dead", "leftover"} :
         NewGroup(s, r, cmd[c].ports[r], c, st)
  <2>1. CASE SpawnService(c)
    <3>1. PICK r \in cmd[c].todo, s \in Service : SpawnGroup(s, r, cmd[c].ports[r], c)
      BY <2>1 DEF SpawnService
    <3> QED BY <3>1, GroupOfSpawn
  <2>2. CASE SpawnFails(c) /\ ~UNCHANGED serviceVars
    BY <2>2 DEF SpawnFails
  <2> QED BY <2>1, <2>2
<1>4. r \in RunRoute
  BY <1>2 DEF CommandInv, Course, Upping
<1>5. \A t \in Service : service'[t] # "unborn" => serves'[t] \in RunRoute
  BY <1>3, <1>4 DEF NewGroup, TaskInv, IInv, ServicesInv
<1>6. \A d \in Command : cmd'[d] # Idle => Task(cmd'[d])
  BY <1>1 DEF TaskInv, StepOf
<1>7. port' = [t \in Service |-> port'[t]] /\ UNCHANGED <<path, job>>
  BY <1>3 DEF NewGroup, TaskInv, SpawnService, SpawnFails, workerVars
<1> QED BY <1>5, <1>6, <1>7 DEF TaskInv

LEMMA OpenTask ==
  ASSUME IInv, TaskInv, NEW c \in Command, Open(c)
  PROVE  TaskInv'
<1>1. /\ StepOf(c) /\ cmd[c] # Idle /\ cmd[c].pc = "open"
      /\ CommandInv(cmd[c], job, serves) /\ Task(cmd[c])
  <2>1. StepOf(c) /\ cmd[c] # Idle
    BY StepIsOf DEF CommandStep, Open, At
  <2> QED BY <2>1, CommandFacts DEF TaskInv, Open, At
<1>2. PICK r \in cmd[c].todo, w \in Worker :
         Spawn(w, r) /\ path' = [path EXCEPT ![w] = cmd[c].manifest]
  BY DEF Open
<1>3. cmd[c].manifest # NoManifest => r \in RoutesOf[cmd[c].manifest]
  BY <1>1 DEF Task
<1>4. \A x \in Worker : path'[x] # NoManifest => job'[x] \in RoutesOf[path'[x]]
  BY <1>2, <1>3 DEF Spawn, TaskInv, IInv, ServicesInv, WorkersInv, WorkersTypeOK
<1>5. PICK q \in cmd[c].todo : Moves(c, "saveOne", cmd[c].svcs, cmd[c].todo \ {q})
  BY <1>1, SpawningMoves DEF CommandInv
<1>6. Task(cmd'[c])
  BY <1>1, <1>5 DEF Task, Moves, TearDown, Ended
<1>7. \A d \in Command : cmd'[d] # Idle => Task(cmd'[d])
  BY <1>1, <1>6 DEF TaskInv, StepOf
<1> QED BY <1>4, <1>7 DEF TaskInv, Open

LEMMA CommandStepTask ==
  ASSUME IInv, TaskInv, NEW c \in Command, CommandStep(c)
  PROVE  TaskInv'
<1>1. CASE ~SpawnService(c) /\ ~Open(c) /\ (SpawnFails(c) => UNCHANGED serviceVars)
  <2>1. UNCHANGED <<worker, job, path, port, serves>>
    BY <1>1 DEF CommandStep, LoadServices, KillOld, StopOld, SaveStopped, Reclaim,
         SpawnFails, SaveServices, OpenFails, SaveOne, Finish,
         Wake, ChildExits, StopTunnels, SaveTorn, KillServices,
         SaveKilled, StopRoute, NothingToStop, SaveStop, workerVars, serviceVars, serving
  <2>2. \A s \in Service : service[s] = "unborn" => service'[s] = "unborn"
    <3>1. UNCHANGED service \/ (\E S : KillGroups(S)) \/ (\E P : ReclaimPorts(P))
      BY <1>1 DEF CommandStep, LoadServices, KillOld, StopOld, SaveStopped, Reclaim,
         SaveServices, OpenFails, SaveOne, Finish,
         Wake, ChildExits, StopTunnels, SaveTorn, KillServices,
         SaveKilled, StopRoute, NothingToStop, SaveStop, serviceVars
    <3> QED BY <3>1 DEF KillGroups, Lingers, ReclaimPorts, Listens, HasLeader, HasListener
  <2> QED BY <1>1, <2>1, <2>2, TaskStays, PlainTasks, StepIsOf
<1> QED BY <1>1, SpawningTask, OpenTask

LEMMA BeginTask ==
  ASSUME IInv, TaskInv, NEW c \in Command,
         BeginUp(c) \/ BeginDown(c) \/ BeginStart(c) \/ BeginStop(c)
  PROVE  TaskInv'
<1>1. ASSUME NEW op, NEW m, NEW pc, NEW f, NEW routes, Begin(c, op, m, pc, f, routes),
             LET st == [op |-> op, manifest |-> m, pc |-> pc, svcs |-> NoServices,
                        tuns |-> NoTunnels, ports |-> f, todo |-> routes]
             IN  Task(st)
      PROVE  TaskInv'
  <2>1. Task(cmd'[c]) /\ \A d \in Command \ {c} : cmd'[d] = cmd[d]
    BY <1>1 DEF Begin, Step, IInv, CommandsInv
  <2>2. UNCHANGED <<workerVars, serviceVars>>
    BY <1>1 DEF Begin
  <2> QED BY <2>1, <2>2 DEF TaskInv, workerVars, serviceVars, serving
<1>2. CASE BeginUp(c)
  <2>1. PICK op \in {"up", "up -d"}, m \in Manifest :
               \E f \in Assigned(m) : Begin(c, op, m, "loadServices", f, {})
    BY <1>2 DEF BeginUp
  <2>2. PICK f \in Assigned(m) : Begin(c, op, m, "loadServices", f, {})
    BY <2>1
  <2>3. \A r \in RoutesOf[m] \cap RunRoute : Declared[r] # AnyFree => f[r] = Declared[r]
    BY DEF Assigned
  <2> QED BY <2>2, <2>3, <1>1 DEF Task
<1>3. CASE BeginDown(c) \/ BeginStart(c) \/ BeginStop(c)
  BY <1>1, <1>3, LifecycleAssumption DEF BeginDown, BeginStart, BeginStop, Task, TearDown
<1> QED BY <1>2, <1>3

LEMMA InitTask == Init => TaskInv
  BY DEF Init, TaskInv

LEMMA NextKeepsTask == IInv /\ TaskInv /\ [Next]_vars => TaskInv'
<1> SUFFICES ASSUME IInv, TaskInv, [Next]_vars PROVE TaskInv'
  OBVIOUS
<1>1. ASSUME NEW c \in Command, Interrupt(c) \/ Kill(c) PROVE TaskInv'
  <2>1. cmd[c] # Idle /\ Task(cmd[c]) /\ cmd[c] \in CommandState
    BY <1>1, CommandFacts DEF Interrupt, Kill, Running, TaskInv, CommandInv
  <2>2. Ends(c)
    BY <1>1, <2>1, TearingMoves
  <2>3. Task(cmd'[c])
    BY <2>1, <2>2, MovesTask DEF Ends, Ended
  <2>4. \A d \in Command \ {c} : cmd'[d] = cmd[d]
    BY <1>1, OneMoves DEF IInv
  <2>5. UNCHANGED <<workerVars, serviceVars>>
    BY <1>1 DEF Interrupt, Kill
  <2> QED BY <2>3, <2>4, <2>5 DEF TaskInv, workerVars, serviceVars, serving
<1>2. CASE \E s \in Service : ServiceExits(s) \/ ListensAgain(s)
  BY <1>2, ServiceSteps DEF TaskInv, serving, workerVars, IInv
<1>3. CASE WorkersNext /\ UNCHANGED <<serviceVars, files, cmd, history>>
  <2>1. UNCHANGED job
    BY <1>3 DEF WorkersNext, WorkerStep, FirstDial, Notice, Redial, Stop, Drop,
                Release, RelayRestarts
  <2> QED BY <1>3, <2>1 DEF TaskInv, serviceVars, serving
<1>4. CASE UNCHANGED vars
  BY <1>4 DEF vars, TaskInv, workerVars, serviceVars, serving
<1> QED BY <1>1, <1>2, <1>3, <1>4, CommandStepTask, BeginTask DEF Next

(* The records a step makes.                                               *)
Places == BringUp \cup TearDown \cup ByKey \cup {"waiting"} \cup Ended
LEMMA StepRecords ==
  ASSUME NEW st \in CommandState, NEW pc \in Places,
         NEW svcs \in [RunRoute -> Service \cup {NoService}],
         NEW tuns \in [Route -> Worker \cup {NoWorker}],
         NEW todo \in SUBSET Route
  PROVE  /\ [st EXCEPT !.pc = pc] \in CommandState
         /\ [st EXCEPT !.todo = todo] \in CommandState
         /\ [st EXCEPT !.svcs = svcs, !.todo = todo] \in CommandState
         /\ [st EXCEPT !.pc = pc, !.tuns = tuns] \in CommandState
         /\ [st EXCEPT !.pc = pc, !.todo = todo] \in CommandState
         /\ [st EXCEPT !.pc = pc, !.svcs = svcs] \in CommandState
         /\ [st EXCEPT !.pc = pc, !.svcs = svcs, !.todo = todo] \in CommandState
         /\ [st EXCEPT !.pc = pc, !.todo = todo, !.tuns = tuns] \in CommandState
         /\ [st EXCEPT !.pc = pc, !.svcs = svcs, !.tuns = tuns, !.todo = todo]
              \in CommandState
<1>1. [st EXCEPT !.pc = pc] \in CommandState BY DEF CommandState, Places
<1>2. [st EXCEPT !.todo = todo] \in CommandState BY DEF CommandState
<1>3. [st EXCEPT !.svcs = svcs, !.todo = todo] \in CommandState BY DEF CommandState
<1>4. [st EXCEPT !.pc = pc, !.tuns = tuns] \in CommandState BY DEF CommandState, Places
<1>5. [st EXCEPT !.pc = pc, !.todo = todo] \in CommandState BY DEF CommandState, Places
<1>6. [st EXCEPT !.pc = pc, !.svcs = svcs] \in CommandState BY DEF CommandState, Places
<1>7. [st EXCEPT !.pc = pc, !.svcs = svcs, !.todo = todo] \in CommandState
  BY DEF CommandState, Places
<1>8. [st EXCEPT !.pc = pc, !.todo = todo, !.tuns = tuns] \in CommandState
  BY DEF CommandState, Places
<1>9. [st EXCEPT !.pc = pc, !.svcs = svcs, !.tuns = tuns, !.todo = todo] \in CommandState
  BY DEF CommandState, Places
<1> QED BY <1>1, <1>2, <1>3, <1>4, <1>5, <1>6, <1>7, <1>8, <1>9, Zenon

(* A command that has begun stays a command.                               *)
LEMMA StepLeavesRecord ==
  ASSUME IInv, NEW c \in Command, CommandStep(c) \/ Interrupt(c) \/ Kill(c)
  PROVE  cmd'[c] # Idle
<1>1. cmd[c] # Idle
  BY DEF CommandStep, LoadServices, KillOld, StopOld, SaveStopped, Reclaim,
         SpawnService, SpawnFails, SaveServices, Open, OpenFails, SaveOne, Finish,
         Wake, ChildExits, StopTunnels, StopKeys, SaveTorn, KillServices,
         SaveKilled, StopRoute, NothingToStop, SaveStop, At, Interrupt, Kill, Running
<1>2. /\ cmd[c] \in CommandState
      /\ Runs(c) \subseteq RunRoute /\ Mine(c) \subseteq Route /\ RunRoute \subseteq Route
      /\ tunnelsFile \in [Route -> Worker \cup {NoWorker}]
      /\ servicesFile \in [RunRoute -> Service \cup {NoService}]
  BY <1>1, CommandFacts, LifecycleAssumption
  DEF CommandInv, IInv, FilesInv, TunnelRecords, ServiceRecords
<1> SUFFICES cmd'[c] \in CommandState
  BY IdleAssumption
<1>3. ASSUME NEW st, st \in CommandState, Step(c, st) PROVE cmd'[c] \in CommandState
  BY <1>3, Stepped
<1>4. CASE LoadServices(c)
  <2> DEFINE alive == Pruned(servicesFile)
             todo == {r \in Runs(c) : alive[r] # NoService}
  <2>1. alive \in [RunRoute -> Service \cup {NoService}] /\ todo \in SUBSET Route
    BY <1>2 DEF Pruned
  <2>2. Step(c, [cmd[c] EXCEPT !.pc = "killOld", !.svcs = alive, !.todo = todo])
    BY <1>4 DEF LoadServices
  <2> HIDE DEF alive, todo
  <2> QED BY <1>2, <1>3, <2>1, <2>2, StepRecords DEF Places, BringUp
<1>5. CASE StopOld(c) \/ StopTunnels(c) \/ StopRoute(c)
  <2>1. PICK pc \in {"saveStopped", "saveTorn", "saveStop"} : \E R :
           Step(c, [cmd[c] EXCEPT !.pc = pc,
               !.tuns = [r \in Route |-> IF r \in R THEN NoWorker ELSE tunnelsFile[r]]])
    <3>1. CASE StopOld(c)
      BY <3>1 DEF StopOld
    <3>2. CASE StopTunnels(c)
      BY <3>2 DEF StopTunnels, StopKeys
    <3>3. CASE StopRoute(c)
      BY <3>3 DEF StopRoute, StopKeys
    <3> QED BY <1>5, <3>1, <3>2, <3>3
  <2>2. PICK tuns \in [Route -> Worker \cup {NoWorker}] :
           Step(c, [cmd[c] EXCEPT !.pc = pc, !.tuns = tuns])
    <3>1. PICK R :
           Step(c, [cmd[c] EXCEPT !.pc = pc,
               !.tuns = [r \in Route |-> IF r \in R THEN NoWorker ELSE tunnelsFile[r]]])
      BY <2>1
    <3>2. [r \in Route |-> IF r \in R THEN NoWorker ELSE tunnelsFile[r]]
             \in [Route -> Worker \cup {NoWorker}]
      BY <1>2
    <3> QED BY <3>1, <3>2
  <2>3. pc \in Places
    BY DEF Places, BringUp, TearDown, ByKey
  <2> QED BY <1>2, <1>3, <2>2, <2>3, StepRecords
<1>6. ASSUME NEW r \in cmd[c].todo, NEW s \in Service \cup {NoService},
             \/ Step(c, [cmd[c] EXCEPT !.svcs[r] = s, !.todo = @ \ {r}])
             \/ Step(c, [cmd[c] EXCEPT !.todo = @ \ {r}])
      PROVE  cmd'[c] \in CommandState
  <2>1. [cmd[c] EXCEPT !.svcs[r] = s, !.todo = @ \ {r}] \in CommandState
    BY <1>2 DEF CommandState
  <2>2. [cmd[c] EXCEPT !.todo = @ \ {r}] \in CommandState
    BY <1>2 DEF CommandState
  <2> QED BY <1>3, <1>6, <2>1, <2>2
<1>7. ASSUME NEW pc \in Places, Step(c, [cmd[c] EXCEPT !.pc = pc, !.tuns = NoTunnels])
      PROVE  cmd'[c] \in CommandState
  <2>1. NoTunnels \in [Route -> Worker \cup {NoWorker}]
    BY DEF NoTunnels
  <2> QED BY <1>2, <1>3, <1>7, <2>1, StepRecords
<1>8. CASE SaveStopped(c) \/ SaveOne(c) \/ SaveTorn(c)
  BY <1>7, <1>8 DEF SaveStopped, SaveOne, SaveTorn, Places, BringUp, TearDown
<1>9. CASE Reclaim(c) \/ SaveServices(c)
  <2>1. Runs(c) \in SUBSET Route /\ Mine(c) \in SUBSET Route
    BY <1>2
  <2> QED BY <1>2, <1>3, <1>9, <2>1, StepRecords
          DEF Reclaim, SaveServices, Places, BringUp
<1>10. ASSUME NEW pc \in Places, Step(c, [cmd[c] EXCEPT !.pc = pc])
       PROVE  cmd'[c] \in CommandState
  BY <1>2, <1>3, <1>10, StepRecords
<1>11. CASE Open(c)
  <2>1. PICK r \in cmd[c].todo, w \in Worker :
           Step(c, [cmd[c] EXCEPT !.pc = "saveOne", !.todo = @ \ {r},
                                  !.tuns = [tunnelsFile EXCEPT ![r] = w]])
    BY <1>11 DEF Open
  <2>2. [cmd[c] EXCEPT !.pc = "saveOne", !.todo = @ \ {r},
                       !.tuns = [tunnelsFile EXCEPT ![r] = w]] \in CommandState
    BY <1>2 DEF CommandState, BringUp
  <2> QED BY <1>3, <2>1, <2>2
<1>12. CASE KillServices(c)
  <2> DEFINE left == [r \in RunRoute |-> IF r \in Runs(c) THEN NoService
                                         ELSE servicesFile[r]]
  <2>1. left \in [RunRoute -> Service \cup {NoService}]
    BY <1>2
  <2>2. Step(c, [cmd[c] EXCEPT !.pc = "saveKilled", !.svcs = left])
    BY <1>12 DEF KillServices
  <2> HIDE DEF left
  <2> QED BY <1>2, <1>3, <2>1, <2>2, StepRecords DEF Places, TearDown
<1>13. ASSUME NEW pc \in Ended, End(c, pc)
       PROVE  cmd'[c] \in CommandState
  <2>1. /\ NoTunnels \in [Route -> Worker \cup {NoWorker}]
        /\ NoServices \in [RunRoute -> Service \cup {NoService}]
        /\ {} \in SUBSET Route
    BY DEF NoTunnels, NoServices
  <2>2. pc \in Places
    BY DEF Places
  <2> QED BY <1>2, <1>3, <1>13, <2>1, <2>2, StepRecords DEF End
<1>14. CASE KillOld(c) \/ SpawnService(c) \/ SpawnFails(c)
  BY <1>6, <1>14 DEF KillOld, SpawnService, SpawnFails
<1>15. CASE Wake(c) \/ ChildExits(c) \/ (Finish(c) /\ cmd[c].op = "up")
  BY <1>10, <1>15 DEF Wake, ChildExits, Finish, Places, TearDown
<1>16. CASE \/ OpenFails(c) \/ SaveKilled(c) \/ NothingToStop(c) \/ SaveStop(c)
            \/ Interrupt(c) \/ Kill(c) \/ (Finish(c) /\ cmd[c].op # "up")
  BY <1>13, <1>16 DEF OpenFails, SaveKilled, NothingToStop, SaveStop, Interrupt, Kill,
                      Finish, Ended
<1> QED BY <1>4, <1>5, <1>8, <1>9, <1>11, <1>12, <1>14, <1>15, <1>16 DEF CommandStep

LEMMA BeginLeavesRecord ==
  ASSUME IInv, NEW c \in Command,
         BeginUp(c) \/ BeginDown(c) \/ BeginStart(c) \/ BeginStop(c)
  PROVE  cmd'[c] # Idle
<1>1. PICK op, m, pc, f, routes :
         Opening(op, m, pc, f, routes) /\ Begin(c, op, m, pc, f, routes)
  <2>1. CASE BeginUp(c)
    <3>1. PICK op \in {"up", "up -d"}, m \in Manifest :
                 \E f \in Assigned(m) : Begin(c, op, m, "loadServices", f, {})
      BY <2>1 DEF BeginUp
    <3>2. PICK f \in Assigned(m) : Begin(c, op, m, "loadServices", f, {})
      BY <3>1
    <3>3. Opening(op, m, "loadServices", f, {})
      BY DEF Opening, Assigned
    <3> QED BY <3>2, <3>3
  <2>2. CASE BeginDown(c) \/ BeginStart(c) \/ BeginStop(c)
    <3>1. NoPorts \in [RunRoute -> Port]
      BY LifecycleAssumption DEF NoPorts, AnyPort
    <3> QED BY <2>2, <3>1, LifecycleAssumption
            DEF BeginDown, BeginStart, BeginStop, Opening
  <2> QED BY <2>1, <2>2
<1>2. [op |-> op, manifest |-> m, pc |-> pc, svcs |-> NoServices,
       tuns |-> NoTunnels, ports |-> f, todo |-> routes] \in CommandState
  BY <1>1 DEF Opening, CommandState, BringUp, TearDown, ByKey, NoServices, NoTunnels
<1>3. cmd'[c] \in CommandState
  BY <1>1, <1>2, Stepped DEF Begin
<1> QED BY <1>3, IdleAssumption

-----------------------------------------------------------------------------
(* Order.                                                                  *)

LEMMA InitNewest == Init => Newest
  BY LifecycleAssumption DEF Init, Newest, Running

LEMMA NextKeepsNewest ==
  ASSUME IInv, OrderInv, Newest, [Next]_vars
  PROVE  Newest'
<1>1. ASSUME NEW c \in Command, CommandStep(c) PROVE Newest'
  <2>1. StepOf(c)
    BY <1>1, StepIsOf
  <2>2. cmd'[c] # Idle
    BY <1>1, StepLeavesRecord
  <2> QED BY <2>1, <2>2 DEF Newest, StepOf, Running
<1>2. ASSUME NEW c \in Command, Interrupt(c) \/ Kill(c) PROVE Newest'
  <2>1. \A d \in Command \ {c} : cmd'[d] = cmd[d]
    BY <1>2, OneMoves DEF IInv
  <2>2. cmd'[c] # Idle
    BY <1>2, StepLeavesRecord
  <2> QED BY <1>2, <2>1, <2>2 DEF Newest, Running, Interrupt, Kill
<1>3. ASSUME NEW c \in Command,
             BeginUp(c) \/ BeginDown(c) \/ BeginStart(c) \/ BeginStop(c)
      PROVE  Newest'
  <2>1. \E op, m, pc, f, routes : Begin(c, op, m, pc, f, routes)
    BY <1>3 DEF BeginUp, BeginDown, BeginStart, BeginStop
  <2>2. /\ last' = c /\ overlapped' = (overlapped \/ \E d \in Command : Running(d))
        /\ \A d \in Command \ {c} : cmd'[d] = cmd[d]
    BY <2>1 DEF Begin, Step, IInv, CommandsInv
  <2>3. cmd'[c] # Idle
    BY <1>3, BeginLeavesRecord
  <2> QED BY <2>2, <2>3 DEF Newest, Running, OrderInv
<1>4. CASE UNCHANGED <<cmd, last, overlapped>>
  BY <1>4 DEF Newest, Running
<1> QED BY <1>1, <1>2, <1>3, <1>4 DEF Next, ServiceExits, ListensAgain, vars, history

-----------------------------------------------------------------------------
(* The ledger.                                                             *)

(* What is left of the groups KillGroup is called for.                     *)
LEMMA KillGroupsLeaders ==
  ASSUME ServicesInv, NEW S, KillGroups(S)
  PROVE  Leaders' = Leaders \ S
  BY DEF KillGroups, Lingers, Headless, HasLeader, Leaders, ServicesInv

LEMMA KnownOfFewer ==
  ASSUME NEW f, Known(Leaders, f), Leaders' \subseteq Leaders, UNCHANGED serves
  PROVE  \A s \in Leaders' : f[serves'[s]] = s
  BY DEF Known

(* While commands do not overlap, all depends on the one that takes the    *)
(* step.                                                                   *)
LEMMA OneStepLedger ==
  ASSUME OrderInv, ~overlapped, NEW c \in Command, StepOf(c),
         Running(c)' => LedgerAt(c)',
         ~Running(c)' => Known(Leaders, servicesFile)'
  PROVE  LedgerInv'
<1>1. \A d \in Command : Running(d)' => d = c
  BY DEF OrderInv, Alone, Running, StepOf
<1> QED BY <1>1 DEF LedgerInv

(* What a command that goes on must see to.                                *)
LEMMA LedgerGoesOn ==
  ASSUME OrderInv, ~overlapped, NEW c \in Command, StepOf(c), cmd'[c] # Idle,
         NEW pc, pc \notin Ended, NEW svcs, NEW todo, Moves(c, pc, svcs, todo),
         pc # "spawn" => \A s \in Leaders' : servicesFile'[serves'[s]] = s,
         (\/ IsUp(c) /\ pc \in {"killOld", "saveStopped", "reclaim", "spawn", "open", "saveOne"}
          \/ pc = "saveKilled") => \A s \in Leaders' : svcs[serves'[s]] = s,
         pc = "killOld" => \A r \in Runs(c) \ todo : svcs[r] = NoService,
         pc \in {"saveStopped", "reclaim"} => \A r \in Runs(c) : svcs[r] = NoService,
         pc = "spawn" => \A r \in todo : svcs[r] = NoService
  PROVE  LedgerInv'
<1>1. Mine(c)' = Mine(c) /\ Runs(c)' = Runs(c) /\ cmd[c] # Idle
      /\ (IsUp(c)' <=> IsUp(c))
  BY DEF Moves, Mine, Runs, IsUp, StepOf, Running
<1>2. Known(Leaders, servicesFile)' <=> \A s \in Leaders' : servicesFile'[serves'[s]] = s
  BY DEF Known
<1>3. Known(Leaders, cmd[c].svcs)' <=> \A s \in Leaders' : svcs[serves'[s]] = s
  BY DEF Known, Moves
<1>4. ~At(c, "spawn")' => Known(Leaders, servicesFile)'
  BY <1>2 DEF At, Moves
<1>5. Carries(c)' => Known(Leaders, cmd[c].svcs)'
  BY <1>1, <1>3 DEF Carries, At, Moves
<1>6. \A r \in Emptied(c)' : cmd'[c].svcs[r] = NoService
  BY <1>1 DEF Emptied, At, Moves
<1>7. LedgerAt(c)'
  BY <1>4, <1>5, <1>6 DEF LedgerAt
<1>8. Running(c)'
  BY DEF Running, Moves
<1> QED BY <1>7, <1>8, OneStepLedger

(* And one that ends.                                                      *)
LEMMA LedgerEnds ==
  ASSUME OrderInv, ~overlapped, NEW c \in Command, StepOf(c), Ends(c),
         \A s \in Leaders' : servicesFile'[serves'[s]] = s
  PROVE  LedgerInv'
<1>1. ~Running(c)'
  BY DEF Running, Ends, Moves
<1>2. Known(Leaders, servicesFile)'
  BY DEF Known
<1> QED BY <1>1, <1>2, OneStepLedger

(* What is known of the command that takes the step.                       *)
LEMMA LedgerFacts ==
  ASSUME IInv, TaskInv, LedgerInv, Orderly, NEW c \in Command, StepOf(c)
  PROVE  /\ cmd[c] # Idle /\ CommandInv(cmd[c], job, serves) /\ LedgerAt(c)
         /\ cmd[c].svcs \in [RunRoute -> Service \cup {NoService}]
         /\ Runs(c) \subseteq RunRoute
         /\ \A s \in Leaders : serves[s] \in RunRoute /\ s # NoService
         /\ ServicesInv
<1>1. cmd[c] # Idle /\ LedgerAt(c)
  BY DEF LedgerInv, StepOf, Running
<1>2. CommandInv(cmd[c], job, serves) /\ Runs(c) \subseteq RunRoute
  BY <1>1, CommandFacts
<1>3. \A s \in Leaders : serves[s] \in RunRoute /\ s # NoService
  BY LifecycleAssumption DEF Leaders, HasLeader, TaskInv
<1> QED BY <1>1, <1>2, <1>3 DEF CommandInv, ServiceRecords, IInv

LEMMA LoadServicesLedger ==
  ASSUME IInv, OrderInv, TaskInv, LedgerInv, Orderly, NEW c \in Command, LoadServices(c)
  PROVE  LedgerInv'
<1>1. StepOf(c) /\ cmd'[c] # Idle
  BY StepIsOf, StepLeavesRecord DEF CommandStep
<1>2. /\ cmd[c] # Idle /\ CommandInv(cmd[c], job, serves) /\ LedgerAt(c)
      /\ Runs(c) \subseteq RunRoute
      /\ \A s \in Leaders : serves[s] \in RunRoute /\ s # NoService
  BY <1>1, LedgerFacts
<1>3. Moves(c, "killOld", Pruned(servicesFile),
            {r \in Runs(c) : Pruned(servicesFile)[r] # NoService})
  BY <1>2, StartingMoves DEF CommandInv
<1>4. Leaders' = Leaders /\ UNCHANGED <<serves, servicesFile>>
  BY DEF LoadServices, serviceVars, serving, Leaders, files
<1>5. \A s \in Leaders : servicesFile[serves[s]] = s
  BY <1>2 DEF LedgerAt, LoadServices, At, Known
<1>6. \A s \in Leaders : Pruned(servicesFile)[serves[s]] = s
  BY <1>2, <1>5 DEF Pruned, AliveService, Leaders
<1> DEFINE alive == Pruned(servicesFile)
           todo == {r \in Runs(c) : alive[r] # NoService}
<1>7. \A r \in Runs(c) \ todo : alive[r] = NoService
  OBVIOUS
<1>8. Moves(c, "killOld", alive, todo)
  BY <1>3
<1>9. \A s \in Leaders' : alive[serves'[s]] = s /\ servicesFile'[serves'[s]] = s
  BY <1>4, <1>5, <1>6
<1> HIDE DEF alive, todo
<1> QED BY <1>1, <1>7, <1>8, <1>9, LedgerGoesOn DEF Orderly, Ended

LEMMA KillOldLedger ==
  ASSUME IInv, OrderInv, TaskInv, LedgerInv, Orderly, NEW c \in Command, KillOld(c)
  PROVE  LedgerInv'
<1>1. StepOf(c) /\ cmd'[c] # Idle
  BY StepIsOf, StepLeavesRecord DEF CommandStep
<1>2. /\ cmd[c] # Idle /\ CommandInv(cmd[c], job, serves) /\ LedgerAt(c)
      /\ cmd[c].svcs \in [RunRoute -> Service \cup {NoService}]
      /\ Runs(c) \subseteq RunRoute
      /\ \A s \in Leaders : serves[s] \in RunRoute /\ s # NoService
      /\ ServicesInv
  BY <1>1, LedgerFacts
<1>3. PICK r \in cmd[c].todo :
         /\ KillGroups({cmd[c].svcs[r]})
         /\ Step(c, [cmd[c] EXCEPT !.svcs[r] = NoService, !.todo = @ \ {r}])
  BY DEF KillOld
<1>4. /\ cmd[c].pc = "killOld" /\ At(c, "killOld")
      /\ IsUp(c) /\ r \in RunRoute
  BY <1>2 DEF KillOld, At, CommandInv, Course, Upping, IsUp
<1> DEFINE svcs == [cmd[c].svcs EXCEPT ![r] = NoService]
           todo == cmd[c].todo \ {r}
<1>5. Moves(c, "killOld", svcs, todo)
  BY <1>2, <1>3, <1>4, StartingMoves DEF CommandInv
<1>6. Leaders' = Leaders \ {cmd[c].svcs[r]} /\ UNCHANGED <<serves, servicesFile>>
  BY <1>2, <1>3, KillGroupsLeaders DEF KillOld, serving, files
<1>7. /\ \A s \in Leaders : servicesFile[serves[s]] = s /\ cmd[c].svcs[serves[s]] = s
      /\ \A q \in Runs(c) \ cmd[c].todo : cmd[c].svcs[q] = NoService
  BY <1>2, <1>4 DEF LedgerAt, Carries, Emptied, At, Known
<1>8. \A s \in Leaders' : svcs[serves'[s]] = s /\ servicesFile'[serves'[s]] = s
  BY <1>2, <1>4, <1>6, <1>7
<1>9. \A q \in Runs(c) \ todo : svcs[q] = NoService
  BY <1>2, <1>4, <1>7
<1> HIDE DEF svcs, todo
<1> QED BY <1>1, <1>5, <1>8, <1>9, LedgerGoesOn DEF Orderly, Ended

(* The tunnels of the manifest's last run, and the ports.                  *)
LEMMA ReclaimLedger ==
  ASSUME IInv, OrderInv, TaskInv, LedgerInv, Orderly, NEW c \in Command,
         StopOld(c) \/ SaveStopped(c) \/ Reclaim(c)
  PROVE  LedgerInv'
<1>1. StepOf(c) /\ cmd'[c] # Idle
  BY StepIsOf, StepLeavesRecord DEF CommandStep
<1>2. /\ cmd[c] # Idle /\ CommandInv(cmd[c], job, serves) /\ LedgerAt(c)
      /\ ServicesInv
  BY <1>1, LedgerFacts
<1>3. IsUp(c) /\ cmd[c].pc \in {"killOld", "saveStopped", "reclaim"}
  BY <1>2 DEF StopOld, SaveStopped, Reclaim, At, CommandInv, Course, Upping, IsUp
<1>4. Leaders' \subseteq Leaders /\ UNCHANGED <<serves, servicesFile>>
  BY <1>2 DEF StopOld, SaveStopped, Reclaim, ReclaimPorts, Listens, Silent, serviceVars,
              serving, files, Leaders, HasLeader, ServicesInv
<1>5. /\ \A s \in Leaders : servicesFile[serves[s]] = s /\ cmd[c].svcs[serves[s]] = s
      /\ \A r \in Runs(c) : cmd[c].svcs[r] = NoService
  BY <1>2, <1>3
  DEF LedgerAt, Carries, Emptied, At, Known, StopOld, SaveStopped, Reclaim
<1>6. \A s \in Leaders' : cmd[c].svcs[serves'[s]] = s /\ servicesFile'[serves'[s]] = s
  BY <1>4, <1>5
<1>7. \E pc \in {"saveStopped", "reclaim", "spawn"}, todo \in {cmd[c].todo, Runs(c)} :
         /\ Moves(c, pc, cmd[c].svcs, todo)
         /\ pc = "spawn" => todo = Runs(c)
  BY <1>2, StartingMoves DEF CommandInv
<1>8. PICK pc \in {"saveStopped", "reclaim", "spawn"}, todo \in {cmd[c].todo, Runs(c)} :
         /\ Moves(c, pc, cmd[c].svcs, todo)
         /\ pc = "spawn" => todo = Runs(c)
  BY <1>7
<1> QED BY <1>1, <1>5, <1>6, <1>8, LedgerGoesOn DEF Orderly, Ended

(* A service that comes up takes a record that was empty.                  *)
LEMMA SpawnServiceLedger ==
  ASSUME IInv, OrderInv, TaskInv, LedgerInv, Orderly, NEW c \in Command, SpawnService(c)
  PROVE  LedgerInv'
<1>1. StepOf(c) /\ cmd'[c] # Idle
  BY StepIsOf, StepLeavesRecord DEF CommandStep
<1>2. /\ cmd[c] # Idle /\ CommandInv(cmd[c], job, serves) /\ LedgerAt(c)
      /\ cmd[c].svcs \in [RunRoute -> Service \cup {NoService}]
      /\ \A s \in Leaders : serves[s] \in RunRoute /\ s # NoService
      /\ ServicesInv
  BY <1>1, LedgerFacts
<1>3. PICK r \in cmd[c].todo, s \in Service :
         /\ SpawnGroup(s, r, cmd[c].ports[r], c)
         /\ Step(c, [cmd[c] EXCEPT !.svcs[r] = s, !.todo = @ \ {r}])
  BY DEF SpawnService
<1>4. /\ cmd[c].pc = "spawn" /\ At(c, "spawn") /\ IsUp(c)
      /\ r \in RunRoute /\ cmd[c].todo \subseteq RunRoute
  BY <1>2 DEF SpawnService, At, CommandInv, Course, Upping, IsUp
<1> DEFINE svcs == [cmd[c].svcs EXCEPT ![r] = s]
           todo == cmd[c].todo \ {r}
<1>5. Moves(c, "spawn", svcs, todo)
  BY <1>2, <1>3, <1>4, SpawningMoves DEF CommandInv
<1>6. /\ \A t \in Leaders : cmd[c].svcs[serves[t]] = t
      /\ \A q \in cmd[c].todo : cmd[c].svcs[q] = NoService
  BY <1>2, <1>4 DEF LedgerAt, Carries, Emptied, At, Known
<1>7. /\ \A t \in Leaders' : t # s => t \in Leaders /\ serves'[t] = serves[t]
      /\ serves'[s] = r
  BY <1>2, <1>3, GroupOfSpawn DEF NewGroup, Leaders, ServicesInv
<1>8. \A t \in Leaders' : svcs[serves'[t]] = t
  BY <1>2, <1>4, <1>6, <1>7
<1>9. \A q \in todo : svcs[q] = NoService
  BY <1>2, <1>4, <1>6
<1> HIDE DEF svcs, todo
<1> QED BY <1>1, <1>5, <1>8, <1>9, LedgerGoesOn DEF Orderly, Ended

LEMMA SpawnFailsLedger ==
  ASSUME IInv, OrderInv, TaskInv, LedgerInv, Orderly, NEW c \in Command, SpawnFails(c)
  PROVE  LedgerInv'
<1>1. StepOf(c) /\ cmd'[c] # Idle
  BY StepIsOf, StepLeavesRecord DEF CommandStep
<1>2. /\ cmd[c] # Idle /\ CommandInv(cmd[c], job, serves) /\ LedgerAt(c)
      /\ ServicesInv
  BY <1>1, LedgerFacts
<1>3. PICK r \in cmd[c].todo : Step(c, [cmd[c] EXCEPT !.todo = @ \ {r}])
  BY DEF SpawnFails
<1>4. cmd[c].pc = "spawn" /\ At(c, "spawn") /\ IsUp(c)
  BY <1>2 DEF SpawnFails, At, CommandInv, Course, Upping, IsUp
<1>5. Moves(c, "spawn", cmd[c].svcs, cmd[c].todo \ {r})
  BY <1>2, <1>3, <1>4, SpawningMoves DEF CommandInv
<1>6. \A t \in Leaders' : t \in Leaders /\ serves'[t] = serves[t]
  BY <1>2 DEF SpawnFails, NewGroup, serviceVars, serving, Leaders, HasLeader, ServicesInv
<1>7. /\ \A t \in Leaders' : cmd[c].svcs[serves'[t]] = t
      /\ \A q \in cmd[c].todo \ {r} : cmd[c].svcs[q] = NoService
  BY <1>2, <1>4, <1>6 DEF LedgerAt, Carries, Emptied, At, Known
<1> QED BY <1>1, <1>5, <1>7, LedgerGoesOn DEF Orderly, Ended

(* The copy becomes the file.                                              *)
LEMMA SaveServicesLedger ==
  ASSUME IInv, OrderInv, TaskInv, LedgerInv, Orderly, NEW c \in Command, SaveServices(c)
  PROVE  LedgerInv'
<1>1. StepOf(c) /\ cmd'[c] # Idle
  BY StepIsOf, StepLeavesRecord DEF CommandStep
<1>2. /\ cmd[c] # Idle /\ CommandInv(cmd[c], job, serves) /\ LedgerAt(c)
  BY <1>1, LedgerFacts
<1>3. At(c, "spawn") /\ IsUp(c)
  BY <1>2 DEF SaveServices, At, CommandInv, Course, Upping, IsUp
<1>4. Moves(c, "open", cmd[c].svcs, Mine(c))
  BY <1>2, SpawningMoves DEF CommandInv
<1>5. \A t \in Leaders' : cmd[c].svcs[serves'[t]] = t /\ servicesFile'[serves'[t]] = t
  BY <1>2, <1>3
  DEF LedgerAt, Carries, Known, At, SaveServices, serviceVars, serving, Leaders
<1> QED BY <1>1, <1>4, <1>5, LedgerGoesOn DEF Orderly, Ended

(* Steps that leave services.json and its copy alone.                      *)
LEMMA TunnelStepsLedger ==
  ASSUME IInv, OrderInv, TaskInv, LedgerInv, Orderly, NEW c \in Command,
         \/ Open(c) \/ SaveOne(c) \/ (Finish(c) /\ cmd[c].op = "up") \/ Wake(c)
         \/ StopTunnels(c) \/ SaveTorn(c) \/ StopRoute(c)
  PROVE  LedgerInv'
<1>1. StepOf(c) /\ cmd'[c] # Idle
  BY StepIsOf, StepLeavesRecord DEF CommandStep
<1>2. /\ cmd[c] # Idle /\ CommandInv(cmd[c], job, serves) /\ LedgerAt(c)
  BY <1>1, LedgerFacts
<1>3. Leaders' = Leaders /\ UNCHANGED <<serves, servicesFile>>
  BY DEF Open, SaveOne, Finish, Wake, StopTunnels, SaveTorn, StopRoute,
         serviceVars, serving, files, Leaders
<1>4. cmd[c].pc \notin {"spawn", "saveKilled"}
  BY DEF Open, SaveOne, Finish, Wake, StopTunnels, SaveTorn, StopRoute, At
<1>5. PICK pc \in {"saveOne", "open", "waiting", "teardown", "saveTorn",
                   "killServices", "saveStop"} :
         /\ \E todo : Moves(c, pc, cmd[c].svcs, todo)
         /\ pc \in {"open", "saveOne"} => cmd[c].pc \in {"open", "saveOne"}
  BY <1>2, SpawningMoves, TearingMoves DEF CommandInv, Open, SaveOne, At
<1>6. PICK todo : Moves(c, pc, cmd[c].svcs, todo)
  BY <1>5
<1>7. \A s \in Leaders' : servicesFile'[serves'[s]] = s
  BY <1>2, <1>3, <1>4 DEF LedgerAt, At, Known
<1>8. IsUp(c) /\ pc \in {"open", "saveOne"} => \A s \in Leaders' : cmd[c].svcs[serves'[s]] = s
  BY <1>2, <1>3, <1>5 DEF LedgerAt, Carries, Known
<1> QED BY <1>1, <1>5, <1>6, <1>7, <1>8, LedgerGoesOn DEF Orderly, Ended

(* The groups on the record of the manifest's routes are killed, the other *)
(* records are kept.                                                       *)
LEMMA KillServicesLedger ==
  ASSUME IInv, OrderInv, TaskInv, LedgerInv, Orderly, NEW c \in Command, KillServices(c)
  PROVE  LedgerInv'
<1>1. StepOf(c) /\ cmd'[c] # Idle
  BY StepIsOf, StepLeavesRecord DEF CommandStep
<1>2. /\ cmd[c] # Idle /\ CommandInv(cmd[c], job, serves) /\ LedgerAt(c)
      /\ Runs(c) \subseteq RunRoute
      /\ \A s \in Leaders : serves[s] \in RunRoute /\ s # NoService
      /\ ServicesInv
  BY <1>1, LedgerFacts
<1>3. ~At(c, "spawn")
  BY DEF KillServices, At
<1>4. \A s \in Leaders : servicesFile[serves[s]] = s
  BY <1>2, <1>3 DEF LedgerAt, Known
<1> DEFINE S == {servicesFile[r] : r \in Runs(c)} \ {NoService}
           left == [r \in RunRoute |-> IF r \in Runs(c) THEN NoService ELSE servicesFile[r]]
<1>5. Leaders' = Leaders \ S /\ UNCHANGED <<serves, servicesFile>>
  <2>1. KillGroups(S)
    BY DEF KillServices
  <2> HIDE DEF S
  <2> QED BY <1>2, <2>1, KillGroupsLeaders DEF KillServices, serving, files
<1>6. Moves(c, "saveKilled", left, cmd[c].todo)
  BY <1>2, TearingMoves DEF CommandInv
<1>7. \A s \in Leaders' : serves[s] \notin Runs(c)
  BY <1>2, <1>4, <1>5
<1>8. \A s \in Leaders' : left[serves'[s]] = s /\ servicesFile'[serves'[s]] = s
  BY <1>2, <1>4, <1>5, <1>7
<1> HIDE DEF S, left
<1> QED BY <1>1, <1>6, <1>8, LedgerGoesOn DEF Orderly, Ended

LEMMA EndingsLedger ==
  ASSUME IInv, OrderInv, TaskInv, LedgerInv, Orderly, NEW c \in Command,
         \/ OpenFails(c) \/ SaveKilled(c) \/ NothingToStop(c) \/ SaveStop(c)
         \/ (Finish(c) /\ cmd[c].op # "up")
  PROVE  LedgerInv'
<1>1. StepOf(c)
  BY StepIsOf DEF CommandStep
<1>2. /\ cmd[c] # Idle /\ CommandInv(cmd[c], job, serves) /\ LedgerAt(c)
  BY <1>1, LedgerFacts
<1>3. Ends(c)
  BY <1>2, TearingMoves DEF CommandInv
<1>4. Leaders' = Leaders /\ UNCHANGED serves
  BY DEF OpenFails, SaveKilled, NothingToStop, SaveStop, Finish,
         serviceVars, serving, Leaders
<1>5. CASE servicesFile' = servicesFile
  <2>1. ~At(c, "spawn")
    BY DEF OpenFails, SaveKilled, NothingToStop, SaveStop, Finish, At
  <2> QED BY <1>1, <1>2, <1>3, <1>4, <1>5, <2>1, LedgerEnds DEF LedgerAt, Known, Orderly
<1>6. CASE servicesFile' = cmd[c].svcs /\ Carries(c)
  BY <1>1, <1>2, <1>3, <1>4, <1>6, LedgerEnds DEF LedgerAt, Known, Orderly
<1>7. servicesFile' = servicesFile \/ (servicesFile' = cmd[c].svcs /\ Carries(c))
  BY DEF OpenFails, SaveKilled, NothingToStop, SaveStop, Finish, files, Carries, At, IsUp
<1> QED BY <1>5, <1>6, <1>7

LEMMA CommandStepKeepsLedger ==
  ASSUME IInv, OrderInv, TaskInv, LedgerInv, NEW c \in Command, CommandStep(c)
  PROVE  LedgerInv'
<1>1. CASE ~Orderly
  BY <1>1, StepIsOf DEF LedgerInv, StepOf, Orderly
<1> QED BY <1>1, LoadServicesLedger, KillOldLedger, ReclaimLedger, SpawnServiceLedger,
           SpawnFailsLedger, SaveServicesLedger, TunnelStepsLedger, KillServicesLedger,
           EndingsLedger
        DEF CommandStep, ChildExits

LEMMA NextKeepsLedger ==
  ASSUME IInv, OrderInv, TaskInv, LedgerInv, [Next]_vars
  PROVE  LedgerInv'
<1>1. ASSUME NEW c \in Command, Interrupt(c) \/ Kill(c) PROVE LedgerInv'
  <2>1. ~Orderly'
    BY <1>1 DEF Interrupt, Kill, Orderly, OrderInv
  <2> QED BY <2>1 DEF LedgerInv
<1>2. ASSUME NEW c \in Command,
             BeginUp(c) \/ BeginDown(c) \/ BeginStart(c) \/ BeginStop(c), Orderly'
      PROVE  LedgerInv'
  <2>1. PICK op, m, f, routes : \E pc \in {"loadServices", "teardown", "open", "stop"} :
           /\ Begin(c, op, m, pc, f, routes)
           /\ pc = "open" => op = "start"
    BY <1>2 DEF BeginUp, BeginDown, BeginStart, BeginStop
  <2>2. PICK pc \in {"loadServices", "teardown", "open", "stop"} :
           /\ Begin(c, op, m, pc, f, routes)
           /\ pc = "open" => op = "start"
    BY <2>1
  <2>3. cmd'[c].pc = pc /\ cmd'[c].op = op
    BY <2>2, Stepped DEF Begin
  <2>4. /\ \A d \in Command \ {c} : cmd'[d] = cmd[d]
        /\ overlapped' = (overlapped \/ \E d \in Command : Running(d))
        /\ UNCHANGED <<service, serves, servicesFile, kills>>
    BY <2>2 DEF Begin, Step, IInv, CommandsInv, serviceVars, serving, files
  <2>5. Orderly /\ \A d \in Command : ~Running(d)
    BY <1>2, <2>4 DEF Orderly, OrderInv
  <2>6. Known(Leaders, servicesFile)'
    BY <2>4, <2>5 DEF LedgerInv, Known, Leaders
  <2>7. LedgerAt(c)'
    BY <2>2, <2>3, <2>6 DEF LedgerAt, Carries, Emptied, At, IsUp
  <2>8. \A d \in Command : Running(d)' => d = c
    BY <2>4, <2>5 DEF Running
  <2> QED BY <2>6, <2>7, <2>8 DEF LedgerInv
<1>3. ASSUME Leaders' \subseteq Leaders,
             UNCHANGED <<serves, servicesFile, cmd, overlapped, kills>>
      PROVE  LedgerInv'
  <2>1. Orderly' <=> Orderly
    BY <1>3 DEF Orderly
  <2>2. Known(Leaders, servicesFile) => Known(Leaders, servicesFile)'
    BY <1>3 DEF Known
  <2>3. ASSUME NEW d \in Command, LedgerAt(d) PROVE LedgerAt(d)'
    <3>1. Known(Leaders, cmd[d].svcs) => Known(Leaders, cmd[d].svcs)'
      BY <1>3 DEF Known
    <3>2. (At(d, "spawn")' <=> At(d, "spawn")) /\ (Carries(d)' <=> Carries(d))
      BY <1>3 DEF At, Carries, IsUp
    <3>3. Emptied(d)' = Emptied(d)
      BY <1>3 DEF Emptied, At, Runs, Mine
    <3> QED BY <1>3, <2>2, <2>3, <3>1, <3>2, <3>3 DEF LedgerAt
  <2>4. \A d \in Command : Running(d)' <=> Running(d)
    BY <1>3 DEF Running
  <2> QED BY <2>1, <2>2, <2>3, <2>4 DEF LedgerInv
<1>4. CASE UNCHANGED vars
  BY <1>3, <1>4 DEF vars, serviceVars, serving, files, history, Leaders
<1>5. CASE WorkersNext /\ UNCHANGED <<serviceVars, files, cmd, history>>
  BY <1>3, <1>5 DEF serviceVars, serving, files, history, Leaders
<1>6. CASE \E s \in Service : ServiceExits(s) \/ ListensAgain(s)
  BY <1>3, <1>6, ServiceSteps DEF IInv, serving, files
<1>7. ASSUME NEW c \in Command,
             BeginUp(c) \/ BeginDown(c) \/ BeginStart(c) \/ BeginStop(c)
      PROVE  LedgerInv'
  BY <1>2, <1>7 DEF LedgerInv
<1> QED BY <1>1, <1>4, <1>5, <1>6, <1>7, CommandStepKeepsLedger DEF Next

LEMMA InitLedger == Init => LedgerInv
  BY DEF Init, LedgerInv, Known, Leaders, HasLeader, Running

-----------------------------------------------------------------------------
(* A clean slate.                                                          *)

(* While commands do not overlap, all depends on the newest one.           *)
LEMMA OneStepSlate ==
  ASSUME Newest, ~overlapped, NEW c \in Command, StepOf(c), UNCHANGED last, Slate(c)'
  PROVE  SlateInv'
  BY DEF Newest, StepOf, SlateInv

(* Elsewhere nothing is asked of it.                                       *)
LEMMA SlateElsewhere ==
  ASSUME Newest, ~overlapped, NEW c \in Command, StepOf(c), UNCHANGED last,
         NEW pc, NEW svcs, NEW todo, Moves(c, pc, svcs, todo),
         pc \notin {"spawn", "open", "saveOne", "waiting"},
         pc = "done" => cmd[c].op # "up -d"
  PROVE  SlateInv'
<1>1. Slate(c)'
  BY DEF Slate, At, Moves, IsUp
<1> QED BY <1>1, OneStepSlate

(* In the places where something is.                                       *)
LEMMA SlateGoesOn ==
  ASSUME Newest, ~overlapped, NEW c \in Command, StepOf(c), UNCHANGED last,
         NEW pc, NEW svcs, NEW todo, Moves(c, pc, svcs, todo),
         pc = "spawn" => \A s \in Pinned(c)' : serves'[s] \notin todo,
         IsUp(c) => \A s \in Pinned(c)' : serves'[s] \in Runs(c),
         IsUp(c) /\ pc \in {"spawn", "open", "saveOne"} =>
            \A s \in Pinned(c)' : svcs[serves'[s]] = s,
         IsUp(c) /\ pc \in {"open", "saveOne", "waiting", "done"} =>
            \A s \in Pinned(c)' : servicesFile'[serves'[s]] = s
  PROVE  SlateInv'
<1>1. cmd[c] # Idle /\ (IsUp(c)' => IsUp(c)) /\ Runs(c)' = Runs(c)
  BY DEF Moves, IsUp, StepOf, Running, Runs, Mine
<1>2. At(c, "spawn")' => \A s \in Pinned(c)' : serves'[s] \notin cmd'[c].todo
  BY DEF At, Moves
<1>3. IsUp(c)' /\ cmd'[c].pc \in {"spawn", "open", "saveOne"} =>
         Recorded(c, cmd[c].svcs)'
  BY <1>1 DEF Recorded, Moves
<1>4. IsUp(c)' /\ (cmd'[c].pc \in {"open", "saveOne", "waiting"}
                   \/ (cmd'[c].op = "up -d" /\ cmd'[c].pc = "done")) =>
         Recorded(c, servicesFile)'
  BY <1>1 DEF Recorded, Moves
<1>5. Slate(c)'
  BY <1>2, <1>3, <1>4 DEF Slate
<1> QED BY <1>5, OneStepSlate

(* What is known of the command that takes the step.                       *)
LEMMA SlateFacts ==
  ASSUME IInv, TaskInv, Newest, SlateInv, ~overlapped, NEW c \in Command, CommandStep(c)
  PROVE  /\ cmd[c] # Idle /\ CommandInv(cmd[c], job, serves) /\ Slate(c) /\ Task(cmd[c])
         /\ cmd[c].svcs \in [RunRoute -> Service \cup {NoService}]
         /\ Runs(c) \subseteq RunRoute
         /\ StepOf(c) /\ UNCHANGED last
         /\ ServicesInv
<1>1. StepOf(c)
  BY StepIsOf
<1>2. cmd[c] # Idle /\ c = last
  BY <1>1 DEF StepOf, Running, Newest
<1>3. Slate(c) /\ Task(cmd[c])
  BY <1>2 DEF SlateInv, TaskInv
<1> QED BY <1>1, <1>2, <1>3, CommandFacts DEF CommandInv, ServiceRecords, IInv, StepOf

(* Nobody who has a port the manifest pins is left.                        *)
LEMMA ReclaimSlate ==
  ASSUME IInv, TaskInv, Newest, SlateInv, ~overlapped, NEW c \in Command, Reclaim(c)
  PROVE  SlateInv'
<1>1. /\ cmd[c] # Idle /\ CommandInv(cmd[c], job, serves) /\ Task(cmd[c])
      /\ StepOf(c) /\ UNCHANGED last
      /\ ServicesInv
  BY SlateFacts DEF CommandStep
<1>2. Moves(c, "spawn", cmd[c].svcs, Runs(c))
  BY <1>1, StartingMoves DEF CommandInv
<1>3. cmd[c].op \in {"up", "up -d"} /\ cmd[c].manifest \in Manifest
  BY <1>1 DEF Reclaim, At, CommandInv, Course, Upping
<1>4. Runs(c) = RoutesOf[cmd[c].manifest] \cap RunRoute /\ Runs(c)' = Runs(c)
  BY <1>1, <1>2, <1>3, CommandFacts DEF Moves, Runs, Mine
<1>5. ASSUME NEW r \in Runs(c), Declared[r] # AnyFree
      PROVE  \A s \in Service : ~Listens(s, Declared[r])'
  <2>1. cmd[c].ports[r] = Declared[r]
    BY <1>1, <1>3, <1>4, <1>5 DEF Task
  <2> QED BY <1>5, <2>1 DEF Reclaim, ReclaimPorts, Listens, Silent, HasLeader, HasListener,
                            serving
<1>6. Pinned(c)' = {}
  BY <1>4, <1>5 DEF Pinned
<1> QED BY <1>1, <1>2, <1>6, SlateGoesOn

LEMMA SpawnServiceSlate ==
  ASSUME IInv, TaskInv, Newest, SlateInv, ~overlapped, NEW c \in Command, SpawnService(c)
  PROVE  SlateInv'
<1>1. /\ cmd[c] # Idle /\ CommandInv(cmd[c], job, serves) /\ Slate(c)
      /\ cmd[c].svcs \in [RunRoute -> Service \cup {NoService}]
      /\ Runs(c) \subseteq RunRoute
      /\ StepOf(c) /\ UNCHANGED last
      /\ ServicesInv
  BY SlateFacts DEF CommandStep
<1>2. PICK r \in cmd[c].todo, s \in Service :
         /\ SpawnGroup(s, r, cmd[c].ports[r], c)
         /\ Step(c, [cmd[c] EXCEPT !.svcs[r] = s, !.todo = @ \ {r}])
  BY DEF SpawnService
<1>3. /\ cmd[c].pc = "spawn" /\ At(c, "spawn") /\ IsUp(c)
      /\ r \in RunRoute
  BY <1>1 DEF SpawnService, At, CommandInv, Course, Upping, IsUp
<1> DEFINE svcs == [cmd[c].svcs EXCEPT ![r] = s]
           todo == cmd[c].todo \ {r}
<1>4. Moves(c, "spawn", svcs, todo)
  BY <1>1, <1>2, <1>3, SpawningMoves DEF CommandInv
<1>5. Runs(c)' = Runs(c)
  BY <1>4 DEF Moves, Runs, Mine
<1>6. \A t \in Pinned(c) :
         /\ serves[t] \notin cmd[c].todo /\ serves[t] \in Runs(c)
         /\ cmd[c].svcs[serves[t]] = t
  BY <1>3, <1>1 DEF Slate, Recorded
<1>7. /\ \A t \in Pinned(c)' : t # s => t \in Pinned(c) /\ serves'[t] = serves[t]
      /\ serves'[s] = r
  <2>1. PICK st : NewGroup(s, r, cmd[c].ports[r], c, st)
    BY <1>2, GroupOfSpawn
  <2>2. UNCHANGED late
    BY DEF SpawnService, history
  <2> QED BY <1>1, <1>5, <2>1, <2>2 DEF NewGroup, Pinned, Listens, ServicesInv, TaskInv
<1>8. \A t \in Pinned(c)' : serves'[t] \notin todo
  BY <1>6, <1>7
<1>9. \A t \in Pinned(c)' : serves'[t] \in Runs(c)
  <2>1. r \in Runs(c)
    BY <1>1, <1>3, CommandFacts DEF CommandInv, Course, Upping
  <2> QED BY <1>6, <1>7, <2>1
<1>10. \A t \in Pinned(c)' : svcs[serves'[t]] = t
  <2>1. svcs[r] = s
    BY <1>1, <1>3
  <2>2. \A t \in Pinned(c) : svcs[serves[t]] = t
    BY <1>1, <1>3, <1>6
  <2> QED BY <1>7, <2>1, <2>2
<1> HIDE DEF svcs, todo
<1> QED BY <1>1, <1>4, <1>8, <1>9, <1>10, SlateGoesOn

(* The steps that leave those who listen alone.                            *)
LEMMA QuietSlate ==
  ASSUME IInv, TaskInv, Newest, SlateInv, ~overlapped, NEW c \in Command,
         SpawnFails(c) \/ SaveServices(c) \/ Open(c) \/ SaveOne(c) \/ Finish(c)
  PROVE  SlateInv'
<1>1. /\ cmd[c] # Idle /\ CommandInv(cmd[c], job, serves) /\ Slate(c)
      /\ StepOf(c) /\ UNCHANGED last
      /\ ServicesInv
  BY SlateFacts DEF CommandStep
<1>2. \A s \in Service : \A p :
         Listens(s, p)' => Listens(s, p) /\ serves'[s] = serves[s]
  <2>1. CASE UNCHANGED serviceVars \/ Open(c)
    BY <2>1 DEF Open, serviceVars, serving, Listens
  <2>2. CASE \E s \in Service : \E r, p : NewGroup(s, r, p, c, "leftover")
    BY <1>1, <2>2 DEF NewGroup, Listens, HasListener, ServicesInv, TaskInv
  <2> QED BY <2>1, <2>2 DEF SpawnFails, SaveServices, SaveOne, Finish
<1>3. ASSUME cmd'[c].manifest = cmd[c].manifest
      PROVE  \A s \in Pinned(c)' : s \in Pinned(c) /\ serves'[s] = serves[s]
  <2>1. Runs(c)' = Runs(c)
    BY <1>3 DEF Runs, Mine
  <2>2. UNCHANGED late
    BY DEF SpawnFails, SaveServices, Open, SaveOne, Finish, history
  <2> QED BY <1>2, <2>1, <2>2 DEF Pinned
<1>4. CASE SpawnFails(c)
  <2>1. PICK r \in cmd[c].todo : Moves(c, "spawn", cmd[c].svcs, cmd[c].todo \ {r})
    BY <1>1, <1>4, SpawningMoves DEF SpawnFails, At, CommandInv
  <2>2. \A s \in Pinned(c)' : s \in Pinned(c) /\ serves'[s] = serves[s]
    BY <1>3, <2>1 DEF Moves
  <2>3. /\ \A s \in Pinned(c)' : serves'[s] \notin cmd[c].todo \ {r}
        /\ IsUp(c) => \A s \in Pinned(c)' :
              serves'[s] \in Runs(c) /\ cmd[c].svcs[serves'[s]] = s
    BY <1>1, <1>4, <2>2 DEF SpawnFails, At, Slate, Recorded
  <2> QED BY <1>1, <2>1, <2>3, SlateGoesOn
<1>5. CASE SaveServices(c)
  <2>1. Moves(c, "open", cmd[c].svcs, Mine(c))
    BY <1>1, <1>5, SpawningMoves DEF CommandInv
  <2>2. /\ \A s \in Pinned(c)' : s \in Pinned(c) /\ serves'[s] = serves[s]
        /\ servicesFile' = cmd[c].svcs
    BY <1>3, <1>5, <2>1 DEF Moves, SaveServices
  <2>3. IsUp(c) => \A s \in Pinned(c)' :
           serves'[s] \in Runs(c) /\ cmd[c].svcs[serves'[s]] = s
    BY <1>1, <1>5, <2>2 DEF SaveServices, At, Slate, Recorded
  <2> QED BY <1>1, <2>1, <2>2, <2>3, SlateGoesOn
<1>6. CASE Open(c) \/ SaveOne(c)
  <2>1. PICK pc \in {"open", "saveOne"}, todo \in SUBSET cmd[c].todo :
           Moves(c, pc, cmd[c].svcs, todo)
    BY <1>1, <1>6, SpawningMoves DEF CommandInv
  <2>2. /\ \A s \in Pinned(c)' : s \in Pinned(c) /\ serves'[s] = serves[s]
        /\ UNCHANGED servicesFile
    BY <1>3, <1>6, <2>1 DEF Moves, Open, SaveOne, files
  <2>3. IsUp(c) => \A s \in Pinned(c)' :
           /\ serves'[s] \in Runs(c)
           /\ cmd[c].svcs[serves'[s]] = s /\ servicesFile'[serves'[s]] = s
    BY <1>1, <1>6, <2>2 DEF Open, SaveOne, At, Slate, Recorded
  <2> QED BY <1>1, <2>1, <2>3, SlateGoesOn
<1>7. CASE Finish(c)
  <2>0. \E pc \in {"waiting", "done"} : \E svcs, todo : Moves(c, pc, svcs, todo)
    <3>1. CASE cmd[c].op = "up"
      BY <1>1, <1>7, <3>1, SpawningMoves DEF CommandInv
    <3>2. CASE cmd[c].op # "up"
      BY <1>1, <1>7, <3>2, EndMoves DEF CommandInv, Finish
    <3> QED BY <3>1, <3>2
  <2>1. PICK pc, svcs, todo : pc \in {"waiting", "done"} /\ Moves(c, pc, svcs, todo)
    BY <2>0
  <2>2. \A s \in Pinned(c)' : s \in Pinned(c) /\ serves'[s] = serves[s]
    BY <1>3, <2>1 DEF Moves
  <2>3. IsUp(c) => \A s \in Pinned(c)' :
           /\ serves'[s] \in Runs(c)
           /\ cmd[c].svcs[serves'[s]] = s /\ servicesFile[serves'[s]] = s
    BY <1>1, <1>7, <2>2 DEF Finish, At, Slate, Recorded
  <2>4. servicesFile' \in {servicesFile, cmd[c].svcs}
    BY <1>7 DEF Finish
  <2>5. IsUp(c) => \A s \in Pinned(c)' : servicesFile'[serves'[s]] = s
    BY <2>3, <2>4
  <2> QED BY <1>1, <2>1, <2>3, <2>5, SlateGoesOn
<1> QED BY <1>4, <1>5, <1>6, <1>7

(* The others.                                                             *)
LEMMA OtherStepsSlate ==
  ASSUME IInv, TaskInv, Newest, SlateInv, ~overlapped, NEW c \in Command,
         \/ LoadServices(c) \/ KillOld(c) \/ StopOld(c) \/ SaveStopped(c)
         \/ OpenFails(c) \/ Wake(c) \/ StopTunnels(c) \/ SaveTorn(c)
         \/ KillServices(c) \/ SaveKilled(c)
         \/ StopRoute(c) \/ NothingToStop(c) \/ SaveStop(c)
  PROVE  SlateInv'
<1>1. /\ cmd[c] # Idle /\ CommandInv(cmd[c], job, serves)
      /\ StepOf(c) /\ UNCHANGED last
  BY SlateFacts DEF CommandStep
<1>2. \E pc : /\ pc \notin {"spawn", "open", "saveOne", "waiting"}
              /\ pc = "done" => cmd[c].op # "up -d"
              /\ \E svcs, todo : Moves(c, pc, svcs, todo)
  <2>1. CASE LoadServices(c) \/ StopOld(c) \/ SaveStopped(c) \/ Wake(c) \/ StopTunnels(c)
             \/ SaveTorn(c) \/ KillServices(c) \/ StopRoute(c)
    BY <1>1, <2>1, StartingMoves, TearingMoves DEF CommandInv
  <2>2. CASE KillOld(c)
    BY <1>1, <2>2, StartingMoves DEF CommandInv, KillOld, At
  <2>3. CASE OpenFails(c) \/ NothingToStop(c)
    BY <1>1, <2>3, EndMoves DEF CommandInv, OpenFails, NothingToStop
  <2>4. CASE SaveKilled(c) \/ SaveStop(c)
    <3>1. cmd[c].op # "up -d"
      BY <1>1, <2>4 DEF SaveKilled, SaveStop, At, CommandInv, Course, TearDown, ByKey
    <3> QED BY <1>1, <2>4, <3>1, EndMoves DEF CommandInv, SaveKilled, SaveStop
  <2> QED BY <2>1, <2>2, <2>3, <2>4
<1> QED BY <1>1, <1>2, SlateElsewhere

LEMMA NextKeepsSlate ==
  ASSUME IInv, OrderInv, TaskInv, Newest, SlateInv, [Next]_vars
  PROVE  SlateInv'
<1>1. ASSUME NEW c \in Command, CommandStep(c) PROVE SlateInv'
  <2>1. CASE overlapped
    BY <1>1, <2>1, StepIsOf DEF SlateInv, StepOf
  <2> QED BY <1>1, <2>1, ReclaimSlate, SpawnServiceSlate, QuietSlate, OtherStepsSlate
          DEF CommandStep, ChildExits
<1>2. ASSUME NEW c \in Command, Interrupt(c) \/ Kill(c) PROVE SlateInv'
  <2>1. cmd[c] # Idle /\ CommandInv(cmd[c], job, serves)
    BY <1>2, CommandFacts DEF Interrupt, Kill, Running
  <2>2. Moves(c, "killed", NoServices, {})
    BY <1>2, <2>1, EndMoves DEF CommandInv, Interrupt, Kill
  <2>3. Slate(c)'
    BY <2>2 DEF Slate, At, Moves, IsUp
  <2>4. Running(c) /\ UNCHANGED <<last, overlapped>>
    BY <1>2 DEF Interrupt, Kill
  <2> QED BY <2>3, <2>4 DEF SlateInv, Newest
<1>3. ASSUME NEW c \in Command,
             BeginUp(c) \/ BeginDown(c) \/ BeginStart(c) \/ BeginStop(c)
      PROVE  SlateInv'
  <2>1. PICK op, m, f, routes : \E pc \in {"loadServices", "teardown", "open", "stop"} :
           /\ Begin(c, op, m, pc, f, routes)
           /\ pc = "open" => op = "start"
    BY <1>3 DEF BeginUp, BeginDown, BeginStart, BeginStop
  <2>2. PICK pc \in {"loadServices", "teardown", "open", "stop"} :
           /\ Begin(c, op, m, pc, f, routes)
           /\ pc = "open" => op = "start"
    BY <2>1
  <2>3. cmd'[c].pc = pc /\ cmd'[c].op = op /\ last' = c
    BY <2>2, Stepped DEF Begin
  <2>4. Slate(c)'
    BY <2>2, <2>3 DEF Slate, At, IsUp
  <2> QED BY <2>3, <2>4 DEF SlateInv
<1>4. ASSUME \A s \in Service \ late' :
                service'[s] \in HasListener => service[s] \in HasListener /\ s \notin late,
             UNCHANGED <<serves, port, servicesFile, cmd, last, overlapped>>
      PROVE  SlateInv'
  <2>1. ASSUME NEW c \in Command, Slate(c) PROVE Slate(c)'
    <3>1. Runs(c)' = Runs(c) /\ (At(c, "spawn")' <=> At(c, "spawn")) /\ (IsUp(c)' <=> IsUp(c))
      BY <1>4 DEF Runs, Mine, At, IsUp
    <3>2. Pinned(c)' \subseteq Pinned(c)
      BY <1>4, <3>1 DEF Pinned, Listens
    <3>3. (Recorded(c, cmd[c].svcs) => Recorded(c, cmd[c].svcs)')
          /\ (Recorded(c, servicesFile) => Recorded(c, servicesFile)')
      BY <1>4, <3>1, <3>2 DEF Recorded
    <3> QED BY <1>4, <2>1, <3>1, <3>2, <3>3 DEF Slate
  <2> QED BY <1>4, <2>1 DEF SlateInv
<1>5. CASE UNCHANGED vars
  BY <1>4, <1>5 DEF vars, serviceVars, serving, files, history
<1>6. CASE WorkersNext /\ UNCHANGED <<serviceVars, files, cmd, history>>
  BY <1>4, <1>6 DEF serviceVars, serving, files, history
<1>7. CASE \E s \in Service : ServiceExits(s) \/ ListensAgain(s)
  BY <1>4, <1>7, ServiceSteps DEF IInv, serving, files
<1> QED BY <1>1, <1>2, <1>3, <1>5, <1>6, <1>7 DEF Next

LEMMA InitSlate == Init => SlateInv
  BY LifecycleAssumption DEF Init, SlateInv

-----------------------------------------------------------------------------
(* What down leaves.                                                       *)

(* Two manifests have no host in common: a host is the name and top-level  *)
(* domain of a project, which the machine's registry keeps apart.          *)
HostsApart ==
    \A m1, m2 \in Manifest : \A r1 \in RoutesOf[m1], r2 \in RoutesOf[m2] :
        r1[1] = r2[1] => m1 = m2

(* A command that is not a down, or not that far, has nothing to show.     *)
LEMMA OneStepTorn ==
  ASSUME Newest, ~overlapped, NEW c \in Command, StepOf(c), UNCHANGED last, Torn(c)'
  PROVE  TornInv'
  BY DEF Newest, StepOf, TornInv

(* Every worker on a host of the manifest that was not told to stop is on  *)
(* record, under the manifest or under none, and is told now.              *)
LEMMA StopTunnelsTorn ==
  ASSUME IInv, OrderInv, TaskInv, Newest, Orderly, HostsApart,
         NEW c \in Command, StopTunnels(c)
  PROVE  TornInv'
<1>1. /\ cmd[c] # Idle /\ CommandInv(cmd[c], job, serves)
      /\ StepOf(c) /\ UNCHANGED last /\ ServicesInv
  BY StepIsOf, CommandFacts DEF CommandStep, StepOf, Running, IInv
<1>2. Moves(c, "saveTorn", cmd[c].svcs, cmd[c].todo)
  BY <1>1, TearingMoves DEF CommandInv
<1>3. Mine(c)' = Mine(c)
  BY <1>2 DEF Moves, Mine
<1>4. \A d \in Command : ~Saves(d)
  <2>1. ~Saves(c) /\ Running(c)
    BY <1>1 DEF StopTunnels, At, Saves, Saving, StepOf
  <2> QED BY <2>1, OthersDoNotSave DEF OrderInv, Orderly
<1>5. ASSUME NEW w \in Worker, worker[w] \in Live, SameHost(job[w], c), w \notin signal,
             cmd[c].op = "down"
      PROVE  w \in signal'
  <2>1. job[w] \in Route /\ tunnelsFile[job[w]] = w /\ w # NoWorker
    BY <1>4, <1>5, WorkersAssumption
    DEF OrderInv, OnRecord, IInv, WorkersInv, WorkersTypeOK, Live
  <2>2. job[w] \in Records
    BY <2>1 DEF Records
  <2>3. PICK q \in RoutesOf[cmd[c].manifest] : job[w][1] = q[1]
    BY <1>5 DEF SameHost, Mine
  <2>4. cmd[c].manifest \in Manifest
    BY <1>1, <1>5 DEF SameHost, Mine, CommandInv, CommandState
  <2>5. CASE path[w] = NoManifest
    <3>1. job[w] \in {r \in RecordsOf(NoManifest) : cmd[c].op = "down" /\ SameHost(r, c)}
      BY <1>5, <2>1, <2>2, <2>5 DEF RecordsOf
    <3> QED BY <2>1, <3>1 DEF StopTunnels, StopKeys
  <2>6. CASE path[w] # NoManifest
    <3>1. path[w] \in Manifest /\ job[w] \in RoutesOf[path[w]]
      BY <1>1, <2>6 DEF ServicesInv, TaskInv
    <3>2. path[w] = cmd[c].manifest
      BY <2>3, <2>4, <3>1 DEF HostsApart
    <3>3. job[w] \in RecordsOf(cmd[c].manifest)
      BY <2>1, <2>2, <3>2 DEF RecordsOf
    <3> QED BY <2>1, <3>3 DEF StopTunnels, StopKeys
  <2> QED BY <2>5, <2>6
<1>6. UNCHANGED <<worker, job>> /\ signal \subseteq signal'
  BY DEF StopTunnels, StopKeys
<1>7. Torn(c)'
  BY <1>2, <1>3, <1>5, <1>6 DEF Torn, Moves, SameHost
<1> QED BY <1>1, <1>7, OneStepTorn DEF Orderly

(* A service of the manifest whose leader lives is on record, and killed.  *)
LEMMA KillServicesTorn ==
  ASSUME IInv, OrderInv, TaskInv, Newest, LedgerInv, TornInv, Orderly,
         NEW c \in Command, KillServices(c)
  PROVE  TornInv'
<1>1. StepOf(c) /\ UNCHANGED last /\ c = last
  BY StepIsOf DEF CommandStep, Newest, StepOf, Orderly
<1>2. /\ cmd[c] # Idle /\ CommandInv(cmd[c], job, serves) /\ LedgerAt(c)
      /\ \A s \in Leaders : serves[s] \in RunRoute /\ s # NoService
      /\ ServicesInv
  BY <1>1, LedgerFacts
<1>3. \E svcs : Moves(c, "saveKilled", svcs, cmd[c].todo)
  BY <1>2, TearingMoves DEF CommandInv
<1>4. Mine(c)' = Mine(c) /\ cmd'[c].op = cmd[c].op
  BY <1>3 DEF Moves, Mine
<1> DEFINE S == {servicesFile[r] : r \in Runs(c)} \ {NoService}
<1>5. Leaders' = Leaders \ S /\ UNCHANGED <<serves, worker, job, signal>>
  <2>1. KillGroups(S)
    BY DEF KillServices
  <2> HIDE DEF S
  <2> QED BY <1>2, <2>1, KillGroupsLeaders DEF KillServices, serving, workerVars
<1>6. \A s \in Leaders : servicesFile[serves[s]] = s
  BY <1>2 DEF LedgerAt, Known, KillServices, At
<1>7. \A s \in Leaders' : serves'[s] \notin Mine(c)'
  BY <1>2, <1>4, <1>5, <1>6 DEF Runs
<1>8. cmd[c].pc = "killServices" /\ Torn(c)
  BY <1>1 DEF KillServices, At, TornInv
<1>9. cmd[c].op = "down" =>
         \A w \in Worker : worker'[w] \in Live /\ SameHost(job[w], c)' => w \in signal'
  BY <1>2, <1>4, <1>5, <1>8 DEF Torn, SameHost
<1>10. Torn(c)'
  BY <1>4, <1>5, <1>7, <1>9 DEF Torn, SameHost
<1> QED BY <1>1, <1>10, OneStepTorn DEF Orderly

(* The files are saved; nobody starts anything meanwhile.                  *)
LEMMA SavingTorn ==
  ASSUME IInv, OrderInv, Newest, TornInv, Orderly, NEW c \in Command,
         SaveTorn(c) \/ SaveKilled(c)
  PROVE  TornInv'
<1>1. StepOf(c) /\ UNCHANGED last /\ c = last /\ cmd[c] # Idle
  BY StepIsOf DEF CommandStep, Newest, StepOf, Orderly, Running
<1>2. CommandInv(cmd[c], job, serves)
  BY <1>1, CommandFacts
<1>3. \E pc, svcs, todo :
         /\ Moves(c, pc, svcs, todo)
         /\ <<cmd[c].pc, pc>> \in {<<"saveTorn", "killServices">>, <<"saveKilled", "done">>}
  BY <1>2, TearingMoves, EndMoves DEF CommandInv, SaveTorn, SaveKilled, At
<1>4. UNCHANGED <<worker, job, signal, service, serves>>
  BY DEF SaveTorn, SaveKilled, workerVars, serviceVars, serving
<1>5. Mine(c)' = Mine(c) /\ cmd'[c].op = cmd[c].op
  BY <1>3 DEF Moves, Mine
<1>6. Torn(c)
  BY <1>1 DEF TornInv
<1>7. Leaders' = Leaders /\ \A w \in Worker : SameHost(job[w], c)' <=> SameHost(job[w], c)
  BY <1>4, <1>5 DEF Leaders, SameHost
<1>8. Torn(c)'
  BY <1>1, <1>3, <1>4, <1>5, <1>6, <1>7 DEF Torn, Moves
<1> QED BY <1>1, <1>8, OneStepTorn DEF Orderly

LEMMA NextKeepsTorn ==
  ASSUME IInv, OrderInv, TaskInv, Newest, LedgerInv, TornInv, HostsApart, [Next]_vars
  PROVE  TornInv'
<1>1. ASSUME NEW c \in Command, CommandStep(c) PROVE TornInv'
  <2>1. StepOf(c) /\ cmd[c] # Idle /\ cmd'[c] # Idle
    BY <1>1, StepIsOf, StepLeavesRecord DEF StepOf, Running
  <2>2. CASE ~Orderly
    BY <2>1, <2>2 DEF TornInv, StepOf, Orderly
  <2>3. CASE Orderly /\ cmd[c].op = "down"
    <3>1. cmd[c].pc \in TearDown \cup Ended
      BY <2>1, <2>3 DEF TaskInv, Task
    <3>2. StopTunnels(c) \/ SaveTorn(c) \/ KillServices(c) \/ SaveKilled(c)
      BY <1>1, <3>1
      DEF CommandStep, LoadServices, KillOld, StopOld, SaveStopped, Reclaim,
          SpawnService, SpawnFails, SaveServices, Open, OpenFails, SaveOne, Finish,
          Wake, ChildExits, StopRoute, NothingToStop, SaveStop, At, TearDown, Ended
    <3> QED BY <2>3, <3>2, StopTunnelsTorn, KillServicesTorn, SavingTorn
  <2>4. CASE Orderly /\ cmd[c].op # "down"
    <3>1. cmd'[c].op = cmd[c].op /\ UNCHANGED last
      <4>1. CommandInv(cmd[c], job, serves) /\ cmd[c] \in CommandState
        BY <2>1, CommandFacts DEF CommandInv
      <4>2. \E pc, svcs, todo : Moves(c, pc, svcs, todo)
        <5>1. CASE KillOld(c) \/ SpawnService(c) \/ SpawnFails(c)
          BY <4>1, <5>1, StartingMoves, SpawningMoves DEF KillOld, SpawnService, SpawnFails
        <5>2. CASE LoadServices(c) \/ StopOld(c) \/ SaveStopped(c) \/ Reclaim(c)
          BY <4>1, <5>2, StartingMoves
        <5>3. CASE SaveServices(c) \/ Open(c) \/ SaveOne(c) \/ (Finish(c) /\ cmd[c].op = "up")
          BY <4>1, <5>3, SpawningMoves
        <5>4. CASE Wake(c) \/ ChildExits(c) \/ StopTunnels(c) \/ SaveTorn(c)
                   \/ KillServices(c) \/ StopRoute(c)
          BY <4>1, <5>4, TearingMoves DEF ChildExits
        <5>5. CASE \/ OpenFails(c) \/ SaveKilled(c) \/ NothingToStop(c) \/ SaveStop(c)
                   \/ (Finish(c) /\ cmd[c].op # "up")
          BY <4>1, <5>5, TearingMoves DEF Ends
        <5> QED BY <1>1, <5>1, <5>2, <5>3, <5>4, <5>5 DEF CommandStep
      <4> QED BY <2>1, <4>2 DEF Moves, StepOf
    <3>2. Torn(c)'
      BY <2>4, <3>1 DEF Torn
    <3> QED BY <2>1, <2>4, <3>1, <3>2, OneStepTorn DEF Orderly
  <2> QED BY <2>2, <2>3, <2>4
<1>2. ASSUME NEW c \in Command, Interrupt(c) \/ Kill(c) PROVE TornInv'
  <2>1. ~Orderly'
    BY <1>2 DEF Interrupt, Kill, Orderly, OrderInv
  <2> QED BY <2>1 DEF TornInv
<1>3. ASSUME NEW c \in Command,
             BeginUp(c) \/ BeginDown(c) \/ BeginStart(c) \/ BeginStop(c)
      PROVE  TornInv'
  <2>1. PICK op, m, f, routes : \E pc \in {"loadServices", "teardown", "open", "stop"} :
           Begin(c, op, m, pc, f, routes)
    BY <1>3 DEF BeginUp, BeginDown, BeginStart, BeginStop
  <2>2. PICK pc \in {"loadServices", "teardown", "open", "stop"} :
           Begin(c, op, m, pc, f, routes)
    BY <2>1
  <2>3. cmd'[c].pc = pc /\ last' = c
    BY <2>2, Stepped DEF Begin
  <2>4. Torn(c)'
    BY <2>2, <2>3 DEF Torn
  <2> QED BY <2>3, <2>4 DEF TornInv
<1>4. ASSUME Leaders' \subseteq Leaders,
             \A w \in Worker : worker'[w] \in Live => worker[w] \in Live,
             UNCHANGED <<job, signal, serves, cmd, last, overlapped, kills>>
      PROVE  TornInv'
  <2>1. Orderly' <=> Orderly
    BY <1>4 DEF Orderly
  <2>2. ASSUME NEW c \in Command, Torn(c) PROVE Torn(c)'
    <3>1. Mine(c)' = Mine(c)
      BY <1>4 DEF Mine
    <3>2. \A w \in Worker : SameHost(job[w], c)' <=> SameHost(job[w], c)
      BY <1>4, <3>1 DEF SameHost
    <3> QED BY <1>4, <2>2, <3>1, <3>2 DEF Torn
  <2> QED BY <1>4, <2>1, <2>2 DEF TornInv
<1>5. CASE UNCHANGED vars
  BY <1>4, <1>5 DEF vars, workerVars, serviceVars, serving, history, Leaders
<1>6. CASE WorkersNext /\ UNCHANGED <<serviceVars, files, cmd, history>>
  <2>1. \A w \in Worker : worker'[w] \in Live => worker[w] \in Live
    BY <1>6
    DEF WorkersNext, WorkerStep, FirstDial, Notice, Redial, Stop, Drop, Release,
        RelayRestarts, Becomes, Live, IInv, WorkersInv, WorkersTypeOK
  <2>2. UNCHANGED <<job, signal>>
    BY <1>6 DEF WorkersNext, WorkerStep, FirstDial, Notice, Redial, Stop, Drop,
                Release, RelayRestarts
  <2> QED BY <1>4, <1>6, <2>1, <2>2 DEF serviceVars, serving, history, Leaders
<1>7. CASE \E s \in Service : ServiceExits(s) \/ ListensAgain(s)
  BY <1>4, <1>7, ServiceSteps DEF IInv, serving, workerVars
<1> QED BY <1>1, <1>2, <1>3, <1>5, <1>6, <1>7 DEF Next

LEMMA InitTorn == Init => TornInv
  BY LifecycleAssumption DEF Init, TornInv

-----------------------------------------------------------------------------
(* The invariants of commands that follow each other, together.            *)
LEMMA InitSequel == Init => OrderInv /\ TaskInv /\ Newest /\ LedgerInv /\ SlateInv
  BY InitOrder, InitTask, InitNewest, InitLedger, InitSlate

LEMMA NextKeepsSequel ==
  IInv /\ OrderInv /\ TaskInv /\ Newest /\ LedgerInv /\ SlateInv /\ [Next]_vars
  => OrderInv' /\ TaskInv' /\ Newest' /\ LedgerInv' /\ SlateInv'
  BY NextKeepsOrder, NextKeepsTask, NextKeepsNewest, NextKeepsLedger, NextKeepsSlate

(* While commands do not overlap, wherever they were cut short, after an   *)
(* `up` whoever listens on a port it pins, and has not taken it again by   *)
(* itself, is the service on record: before it spawned anything the `up`   *)
(* took its ports from whoever listened on them.                           *)
THEOREM LifecycleCleanSlate == Spec => []CleanSlate
<1>1. Newest /\ SlateInv => CleanSlate
  <2> SUFFICES ASSUME Newest, SlateInv, NewestIsUp, ~overlapped,
                      NEW s \in Service, NEW r \in Runs(last), Declared[r] # AnyFree,
                      Listens(s, Declared[r]), s \notin late
               PROVE  serves[s] \in Runs(last) /\ servicesFile[serves[s]] = s
    BY DEF CleanSlate
  <2>1. last \in Command /\ cmd[last] # Idle
    BY DEF Newest, NewestIsUp
  <2>2. <<cmd[last].op, cmd[last].pc>> \in {<<"up", "waiting">>, <<"up -d", "done">>}
    BY DEF NewestIsUp
  <2>3. Recorded(last, servicesFile)
    BY <2>1, <2>2 DEF SlateInv, Slate, IsUp
  <2> QED BY <2>3 DEF Recorded, Pinned
<1> QED BY <1>1, InitSequel, NextKeepsSequel, LifecycleInvariant, PTL DEF Spec

(* While commands follow each other and none is cut short, `down` leaves   *)
(* no service of its manifest whose leader lives and no worker on one of   *)
(* its hosts that was not told to stop: all of them are on record.         *)
THEOREM LifecycleDownStopsEverything ==
  ASSUME HostsApart
  PROVE  Spec => []DownStopsEverything
<1>1. Newest /\ OrderInv /\ TornInv => DownStopsEverything
  BY DEF Newest, OrderInv, TornInv, Torn, Orderly, Leaders, DownStopsEverything
<1>2. /\ IInv /\ OrderInv /\ TaskInv /\ Newest /\ LedgerInv /\ TornInv
      /\ [Next]_vars
      => TornInv'
  BY NextKeepsTorn
<1> QED BY <1>1, <1>2, InitSequel, NextKeepsSequel, InitTorn, LifecycleInvariant, PTL
        DEF Spec
=============================================================================
