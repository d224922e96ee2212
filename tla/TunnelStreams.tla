---------------------------- MODULE TunnelStreams ----------------------------
(***************************************************************************)
(* The streams a tunnel worker serves (src/cli/tunnel/tunnel.go).  The     *)
(* relay opens one on the session of a route's owner for every connection  *)
(* it needs; the worker's accept loop starts handleStream for it, which    *)
(* dials the local target and pipes: two goroutines copy, one each way,    *)
(* and whichever reads or writes to an end closes what it copies to.  The  *)
(* worker meanwhile loses its session, reconnects and is stopped           *)
(* (TunnelWorkers); a stream ends with its session, not with the worker.   *)
(* No write has a deadline: an end that takes nothing holds its copier.    *)
(***************************************************************************)
EXTENDS TunnelWorkers

CONSTANTS
    Stream,               \* streams that exist at once
    Stalling              \* those whose ends may stop taking what is written

VARIABLE stream           \* [Stream -> handleStream and both its ends]

streamVars == <<workerVars, stream>>

(* A copier copies, is stuck in its last write, which the far end does not *)
(* take, or has ended, if it can send to pipe's channel.                   *)
Copier == {"none", "copying", "stuck", "done", "blocked"}
Busy == {"copying", "stuck"}

StreamState ==
    [of : Worker \cup {NoWorker},
     at : {"free", "backlog", "dialing", "piping", "returned"},
     relay : BOOLEAN,      \* the relay, and the session, hold their end open
     target : BOOLEAN,     \* the connection to the target is open at both ends
     up : Copier,          \* io.Copy(local, stream)
     down : Copier]        \* io.Copy(stream, local)

Free == [of |-> NoWorker, at |-> "free", relay |-> FALSE, target |-> FALSE,
         up |-> "none", down |-> "none"]

InitStreams ==
    /\ InitWorkers
    /\ stream = [s \in Stream |-> Free]

(* Nothing is left of a stream once its goroutines are and the relay has   *)
(* closed its end.                                                         *)
Settled(st) ==
    IF st.at = "returned" /\ ~st.relay /\ {st.up, st.down} \subseteq {"none", "done"}
    THEN Free ELSE st

Turns(s, st) ==
    /\ stream' = [stream EXCEPT ![s] = Settled(st)]
    /\ UNCHANGED workerVars

-----------------------------------------------------------------------------
(* Entry.OpenStream, on the session of the route's owner.                  *)
OpenStream(s) ==
    /\ stream[s] = Free
    /\ \E r \in Route :
          /\ owner[r] \in linked
          /\ Turns(s, [Free EXCEPT !.of = owner[r], !.at = "backlog", !.relay = TRUE])

(* Mutant: handleStream is called, not started.                            *)
AcceptInline(s) ==
    /\ stream[s].at = "backlog"
    /\ \A t \in Stream :
          stream[t].of = stream[s].of => stream[t].at \notin {"dialing", "piping"}
    /\ Turns(s, [stream[s] EXCEPT !.at = "dialing"])

(* sess.Accept, and a goroutine for the stream.                            *)
Accept(s) ==
    /\ stream[s].at = "backlog"
    /\ Turns(s, [stream[s] EXCEPT !.at = "dialing"])

(* net.DialTimeout fails: handleStream returns and closes the stream.      *)
TargetRefuses(s) ==
    /\ stream[s].at = "dialing"
    /\ Turns(s, [stream[s] EXCEPT !.at = "returned"])

DialsTarget(s) ==
    /\ stream[s].at = "dialing"
    /\ Turns(s, [stream[s] EXCEPT !.at = "piping", !.target = TRUE,
                                  !.up = "copying", !.down = "copying"])

(* The worker's end of the stream: handleStream or a copier closed it.     *)
StreamClosed(s) ==
    stream[s].at = "returned" \/ stream[s].down \in {"done", "blocked"}

(* A copier that ended closes the end it writes to and sends to pipe's     *)
(* channel, which has room for both and is received from once.             *)
Sent(s) == Cardinality({c \in {"up", "down"} : stream[s][c] = "done"})

(* Mutant: the channel has no room; one send meets the receive.            *)
HasRoomUnbuffered(s) == stream[s].at = "piping" /\ Sent(s) = 0

HasRoom(s) ==
    Sent(s) - (IF stream[s].at = "returned" THEN 1 ELSE 0) < 2

CopierEnd(s) == IF HasRoom(s) THEN "done" ELSE "blocked"

(* Reading from the stream goes on after the worker closed it (yamux), and *)
(* ends with the relay's end; a write fails once the connection is closed  *)
(* at either end, one that is stuck, too.                                  *)
UpReadEnds(s) == ~stream[s].relay
UpWriteFails(s) == ~stream[s].target

UpEnds(s) ==
    /\ stream[s].up \in Busy
    /\ \/ UpWriteFails(s)
       \/ stream[s].up = "copying" /\ UpReadEnds(s)
    /\ Turns(s, [stream[s] EXCEPT !.up = CopierEnd(s), !.target = FALSE])

(* A read from the connection ends when either side closes it; a write to  *)
(* the stream fails once the worker has closed it or the relay has reset   *)
(* it, as yamux does some time after it was closed.                        *)
DownReadEnds(s) == ~stream[s].target
DownWriteFails(s) == StreamClosed(s) \/ ~stream[s].relay

DownEnds(s) ==
    /\ stream[s].down \in Busy
    /\ \/ DownWriteFails(s)
       \/ stream[s].down = "copying" /\ DownReadEnds(s)
    /\ Turns(s, [stream[s] EXCEPT !.down = CopierEnd(s)])

(* These need nobody to write or to read: what a copier waits for is over. *)
UpFinishes(s) ==
    /\ IF stream[s].up = "stuck" THEN UpWriteFails(s) ELSE UpReadEnds(s)
    /\ UpEnds(s)
DownFinishes(s) ==
    /\ IF stream[s].down = "stuck" THEN DownWriteFails(s) ELSE DownReadEnds(s)
    /\ DownEnds(s)

(* The copier does not get there: of what was read before, something is    *)
(* left to write, and the far end takes no more.  Perhaps it does later.   *)
(* While there is more to read a pending write counts as copying.          *)
UpStalls(s) ==
    /\ s \in Stalling
    /\ stream[s].up = "copying" /\ UpReadEnds(s) /\ ~UpWriteFails(s)
    /\ Turns(s, [stream[s] EXCEPT !.up = "stuck"])

DownStalls(s) ==
    /\ s \in Stalling
    /\ stream[s].down = "copying" /\ DownReadEnds(s) /\ ~StreamClosed(s)
    /\ Turns(s, [stream[s] EXCEPT !.down = "stuck"])

UpResumes(s) ==
    /\ stream[s].up = "stuck" /\ stream[s].target
    /\ Turns(s, [stream[s] EXCEPT !.up = "copying"])

DownResumes(s) ==
    /\ stream[s].down = "stuck" /\ stream[s].relay
    /\ Turns(s, [stream[s] EXCEPT !.down = "copying"])

(* pipe returns, and handleStream closes both.                             *)
Returns(s) ==
    /\ stream[s].at = "piping" /\ Sent(s) > 0
    /\ Turns(s, [stream[s] EXCEPT !.at = "returned", !.target = FALSE])

(* The visitor leaves, the response is complete, a timeout.                *)
RelayCloses(s) ==
    /\ stream[s].relay
    /\ Turns(s, [stream[s] EXCEPT !.relay = FALSE])

(* The relay's transport reads to the end of the stream and closes it, or, *)
(* if its visitor does not let it, yamux resets it after a time.           *)
RelayFollows(s) == StreamClosed(s) /\ RelayCloses(s)

TargetCloses(s) ==
    /\ stream[s].target
    /\ Turns(s, [stream[s] EXCEPT !.target = FALSE])

HandlerRuns(s) == Accept(s) \/ TargetRefuses(s) \/ DialsTarget(s) \/ Returns(s)
Copies(s) ==
    \/ UpEnds(s) \/ UpStalls(s) \/ UpResumes(s)
    \/ DownEnds(s) \/ DownStalls(s) \/ DownResumes(s)

StreamStep(s) ==
    OpenStream(s) \/ HandlerRuns(s) \/ Copies(s) \/ RelayCloses(s) \/ TargetCloses(s)

-----------------------------------------------------------------------------
(* With its session a stream loses the relay's end, and is never accepted  *)
(* if it was not yet; with the process everything of it goes.              *)
Follows(s) ==
    LET w == stream[s].of
    IN  IF stream[s] = Free THEN Free
        ELSE IF worker'[w] = "gone" THEN Free
        ELSE IF w \in linked \ linked'
             THEN IF stream[s].at = "backlog" THEN Free
                  ELSE Settled([stream[s] EXCEPT !.relay = FALSE])
        ELSE stream[s]

StreamsNext ==
    \/ FreeNext /\ stream' = [s \in Stream |-> Follows(s)]
    \/ \E s \in Stream : StreamStep(s)

(* Goroutines run; a dial takes 10 s at most; reads that have ended and    *)
(* writes to what is closed return; the relay closes what it has read to   *)
(* the end.  Nobody has to write or to read, and the target and the        *)
(* visitor may stay for ever.                                              *)
StreamFairness(s) ==
    /\ WF_streamVars(HandlerRuns(s)) /\ WF_streamVars(RelayFollows(s))
    /\ WF_streamVars(UpFinishes(s)) /\ WF_streamVars(DownFinishes(s))

StreamsSpec ==
    /\ InitStreams /\ [][StreamsNext]_streamVars
    /\ WorkersFairness
    /\ \A s \in Stream : StreamFairness(s)

-----------------------------------------------------------------------------
(* Hazard: a request that never ends -- a websocket, an event stream --    *)
(* keeps others on the same tunnel waiting.  A stream is taken from the    *)
(* backlog whatever becomes of those before it (tunnel.go:156; "any        *)
(* protocol on top of HTTP", main.go:656-659).                             *)
NobodyWaitsBehind ==
    \A s \in Stream : (stream[s].at = "backlog") ~> (stream[s].at # "backlog")

(* One end is closed, and a copier is stuck in a write to the other, which *)
(* stays open and takes nothing.  pipe waits for either copier, and what   *)
(* would end this one is pipe's return.                                    *)
Hangs(s) ==
    /\ stream[s].at = "piping"
    /\ \/ ~stream[s].relay /\ stream[s].target /\ stream[s].up = "stuck"
       \/ ~stream[s].target /\ stream[s].relay /\ stream[s].down = "stuck"

(* Hazard: a worker lives for weeks over thousands of requests and drops;  *)
(* each could leave a blocked goroutine or a connection to the target.     *)
(* Once either end is closed, or the session lost, nothing stays of a      *)
(* stream but what hangs on the other end; of one with both ends closed    *)
(* nothing can (pipe, handleStream).                                       *)
StreamsEnd ==
    \A s \in Stream :
        (stream[s].at \in {"piping", "returned"}
            /\ (~stream[s].relay \/ ~stream[s].target)) ~> (stream[s] = Free \/ Hangs(s))
=============================================================================
