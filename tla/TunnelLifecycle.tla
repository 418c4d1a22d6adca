--------------------------- MODULE TunnelLifecycle ---------------------------
(***************************************************************************)
(* The Start/Stop life cycle of the accept-loop tunnels, modelled on       *)
(* lib/tcp/client/tcp_client.go and the shared loop of lib/core/base.go.   *)
(*                                                                         *)
(* Every call of Start and every call of Stop runs in a goroutine of its   *)
(* own and is identified by the constant that names it.  A Start call also *)
(* names the done channel it makes and the listener it opens.  The Stop    *)
(* that Start defers runs under the name of the Start call.                *)
(*                                                                         *)
(* The status and the metrics are written outside lifeMu, so those writes  *)
(* are steps of their own; what happens under lifeMu and is read only      *)
(* under lifeMu is one step.                                               *)
(***************************************************************************)
EXTENDS Naturals

CONSTANTS
  Starts,           \* the calls of Start that may be made
  Stops,            \* the calls of Stop that may be made (besides the deferred ones)
  None,             \* no call: lifeMu is free, no listener, the done channel of NewTCPClient
  MaxAcceptErrors,  \* maxConsecutiveAcceptErrors
  Discipline,       \* how the callers order their calls, see MayStart and MayStop
  CapturesDone,     \* Start keeps its own done channel (TCPClient); the siblings re-read t.done
  ExclusivePort,    \* only one listener can be open: all incarnations bind the same port
  Limited           \* the listener is wrapped in a LimitedListener (the server tunnels)

ASSUME CallsAssumption ==
  /\ Starts \cap Stops = {}
  /\ None \notin Starts \cup Stops

ASSUME BoundAssumption == MaxAcceptErrors \in Nat \ {0}

ASSUME DisciplineAssumption == Discipline \in {"overlapping", "sequential", "orderly"}

ASSUME FlagsAssumption == {CapturesDone, ExclusivePort, Limited} \subseteq BOOLEAN

VARIABLES
  lifeMu,     \* the call that holds t.lifeMu, or None
  done,       \* t.done, named by the Start call that made it
  closed,     \* the done channels that are closed
  stopUsed,   \* t.stopOnce has fired
  listener,   \* t.listener, named by the Start call that opened it
  open,       \* the listeners that are open
  status,     \* t.I2PTunnelStatus
  uptime,     \* t.Metrics.startedAt is not zero
  pc,         \* where each call stands
  seen,       \* the done channel the accept loop of each Start call watches
  errors,     \* consecutiveErrors of each accept loop
  outcome     \* what each Start call returns

\* The state behind lifeMu, the port, what observers see, the accept loops.
locked == <<lifeMu, done, closed, stopUsed>>
port == <<listener, open>>
shown == <<status, uptime>>
loops == <<seen, errors, outcome>>
vars == <<locked, port, shown, loops, pc>>

Calls == Starts \cup Stops
Channels == Starts \cup {None}
Statuses == {"stopped", "starting", "running", "failed"}

\* Start: binding, becoming Running, looping, leaving; Stop: waiting for lifeMu, its body.
Starting == {"listen", "setRunning", "recordStart", "readDone"}
Looping == {"loop", "accept", "failedAccept", "count"}
Stopping == {"stop", "closePort", "setStopped", "recordStop"}
Over == {"idle", "returned"}
Locations == Starting \cup Looping \cup Stopping \cup Over \cup {"closeListener"}

Goto(c, from, to) == pc[c] = from /\ pc' = [pc EXCEPT ![c] = to]

InFlight(c) == pc[c] \notin Over

-----------------------------------------------------------------------------
\* NewTCPClient: stopped, with a fresh done channel and no listener.
Init ==
  /\ lifeMu = None
  /\ done = None
  /\ closed = {}
  /\ stopUsed = FALSE
  /\ listener = None
  /\ open = {}
  /\ status = "stopped"
  /\ uptime = FALSE
  /\ pc = [c \in Calls |-> "idle"]
  /\ seen = [s \in Starts |-> None]
  /\ errors = [s \in Starts |-> 0]
  /\ outcome = [s \in Starts |-> "none"]

(***************************************************************************)
(* The callers.  "overlapping": a restart is Stop followed by go Start(),  *)
(* with no wait for the previous Start to return, and nothing stops two    *)
(* Starts (webui handleStart and handleRestart, embedding Run).            *)
(* "sequential": Start is called when no other Start is in flight; Stop    *)
(* at any time.  "orderly": moreover no Stop overlaps the startup of a     *)
(* Start, in either direction.                                             *)
(***************************************************************************)
MayStart ==
  /\ Discipline # "overlapping" => \A s \in Starts : ~InFlight(s)
  /\ Discipline = "orderly" => \A c \in Stops : ~InFlight(c)

MayStop == Discipline = "orderly" => \A s \in Starts : pc[s] \notin Starting

-----------------------------------------------------------------------------
(***************************************************************************)
(* The assignments a slip would hit.  A definition whose name ends in      *)
(* Slip is the same code with a plausible bug; no specification uses it:   *)
(* it is put in place of the definition after it to show that a property   *)
(* notices.                                                                *)
(***************************************************************************)
\* Start forgets to make a new channel.
RearmSlip(s) == stopUsed' = FALSE /\ UNCHANGED done
\* t.done = make(chan struct{}); t.stopOnce = sync.Once{}
Rearm(s) == stopUsed' = FALSE /\ done' = s

\* t.SetStatus(Starting)
Announce == status' = "starting"

\* Start keeps the listener to itself.
PublishSlip(s) == UNCHANGED listener
\* t.listener = listener
Publish(s) == listener' = s

\* The early return of Start keeps the lock.
UnlockOnErrorSlip == UNCHANGED lifeMu
\* t.lifeMu.Unlock() on the error path
UnlockOnError == lifeMu' = None

\* Off by one.
AtLimitSlip(n) == n > MaxAcceptErrors
\* *consecutiveErrors >= maxErrors
AtLimit(n) == n >= MaxAcceptErrors

\* Start does not defer Stop.
LeaveSlip(s, from, result) ==
  Goto(s, from, "closeListener") /\ outcome' = [outcome EXCEPT ![s] = result]
\* The accept loop returns to Start, whose deferred Stop is next.
Leave(s, from, result) ==
  Goto(s, from, "stop") /\ outcome' = [outcome EXCEPT ![s] = result]

\* Stop does not close the listener.
ClosePortSlip == UNCHANGED open
\* t.listener.Close()
ClosePort == open' = open \ {listener}

\* Stop does not set the status.
MarkStoppedSlip == UNCHANGED status
\* t.SetStatus(Stopped)
MarkStopped == status' = "stopped"

\* Stop does not clear the start time.
ClearUptimeSlip == UNCHANGED uptime
\* t.Metrics.RecordStop()
ClearUptime == uptime' = FALSE

-----------------------------------------------------------------------------
\* Start takes lifeMu, makes a new done channel and resets stopOnce.
StartLock(s) ==
  /\ MayStart
  /\ lifeMu = None
  /\ Goto(s, "idle", "listen")
  /\ lifeMu' = s
  /\ Rearm(s)
  /\ Announce
  /\ seen' = [seen EXCEPT ![s] = IF CapturesDone THEN s ELSE None]
  /\ UNCHANGED <<closed, port, uptime, errors, outcome>>

\* net.Listen succeeds, unless another incarnation still holds the port.
Listen(s) ==
  /\ ExclusivePort => open = {}
  /\ Goto(s, "listen", "setRunning")
  /\ open' = open \cup {s}
  /\ Publish(s)
  /\ lifeMu' = None
  /\ UNCHANGED <<done, closed, stopUsed, shown, loops>>

\* net.Listen fails: Start returns before anything is deferred, the status stays.
ListenError(s) ==
  /\ Goto(s, "listen", "returned")
  /\ outcome' = [outcome EXCEPT ![s] = "listenError"]
  /\ UnlockOnError
  /\ UNCHANGED <<done, closed, stopUsed, port, shown, seen, errors>>

SetRunning(s) ==
  /\ Goto(s, "setRunning", "recordStart")
  /\ status' = "running"
  /\ UNCHANGED <<locked, port, uptime, loops>>

RecordStart(s) ==
  /\ Goto(s, "recordStart", IF CapturesDone THEN "loop" ELSE "readDone")
  /\ uptime' = TRUE
  /\ UNCHANGED <<locked, port, status, loops>>

\* The siblings evaluate t.done when they call RunAcceptDispatch, without lifeMu.
ReadDone(s) ==
  /\ Goto(s, "readDone", "loop")
  /\ seen' = [seen EXCEPT ![s] = done]
  /\ UNCHANGED <<locked, port, shown, errors, outcome>>

-----------------------------------------------------------------------------
\* RunAcceptDispatch: select on done, otherwise accept once more.
Loop(s) ==
  /\ \/ seen[s] \in closed /\ Leave(s, "loop", "nil")
     \/ seen[s] \notin closed /\ Goto(s, "loop", "accept") /\ UNCHANGED outcome
  /\ UNCHANGED <<locked, port, shown, seen, errors>>

\* Accept returns a connection; its handler runs in a goroutine of its own.
Accept(s) ==
  /\ s \in open
  /\ Goto(s, "accept", "loop")
  /\ errors' = [errors EXCEPT ![s] = 0]
  /\ UNCHANGED <<locked, port, shown, seen, outcome>>

\* A LimitedListener refuses a connection: no error is counted.
RateLimitHit(s) ==
  /\ Limited
  /\ Goto(s, "accept", "loop")
  /\ UNCHANGED <<locked, port, shown, loops>>

AcceptFails(s) ==
  /\ Goto(s, "accept", "failedAccept")
  /\ UNCHANGED <<locked, port, shown, loops>>

\* Accept on a closed listener always fails; on an open one it may.
ClosedAccept(s) == s \notin open /\ AcceptFails(s)
TransientError(s) == s \in open /\ AcceptFails(s)

\* HandleAcceptError returns cleanly when the tunnel is being stopped.
CheckDone(s) ==
  /\ \/ seen[s] \in closed /\ Leave(s, "failedAccept", "nil")
     \/ seen[s] \notin closed /\ Goto(s, "failedAccept", "count") /\ UNCHANGED outcome
  /\ UNCHANGED <<locked, port, shown, seen, errors>>

\* handleConsecutiveError: one more error, fatal at the limit.
CountError(s) ==
  /\ errors' = [errors EXCEPT ![s] = @ + 1]
  /\ \/ /\ AtLimit(errors[s] + 1)
        /\ status' = "failed"
        /\ Leave(s, "count", "fatal")
     \/ /\ ~AtLimit(errors[s] + 1)
        /\ Goto(s, "count", "loop")
        /\ UNCHANGED <<status, outcome>>
  /\ UNCHANGED <<locked, port, uptime, seen>>

\* The first deferred call, listener.Close(), runs last; then Start returns.
CloseListener(s) ==
  /\ Goto(s, "closeListener", "returned")
  /\ open' = open \ {s}
  /\ UNCHANGED <<locked, listener, shown, loops>>

-----------------------------------------------------------------------------
\* Somebody calls Stop, which waits for lifeMu.
CallStop(c) ==
  /\ MayStop
  /\ Goto(c, "idle", "stop")
  /\ UNCHANGED <<locked, port, shown, loops>>

\* The deferred Stop of a Start call returns into that call.
AfterStop(c) == IF c \in Starts THEN "closeListener" ELSE "returned"

\* stopOnce has fired: nothing to do.
StopAgain(c) ==
  /\ lifeMu = None
  /\ stopUsed
  /\ Goto(c, "stop", AfterStop(c))
  /\ UNCHANGED <<locked, port, shown, loops>>

\* stopOnce fires: close(t.done).
StopOnce(c) ==
  /\ lifeMu = None
  /\ ~stopUsed
  /\ Goto(c, "stop", "closePort")
  /\ lifeMu' = c
  /\ stopUsed' = TRUE
  /\ closed' = closed \cup {done}
  /\ UNCHANGED <<done, port, shown, loops>>

\* Stop closes the listener and the SAM session.
StopListener(c) ==
  /\ Goto(c, "closePort", "setStopped")
  /\ ClosePort
  /\ UNCHANGED <<locked, listener, shown, loops>>

SetStopped(c) ==
  /\ Goto(c, "setStopped", "recordStop")
  /\ MarkStopped
  /\ UNCHANGED <<locked, port, uptime, loops>>

RecordStop(c) ==
  /\ Goto(c, "recordStop", AfterStop(c))
  /\ ClearUptime
  /\ lifeMu' = None
  /\ UNCHANGED <<done, closed, stopUsed, port, status, loops>>

-----------------------------------------------------------------------------
StopStep(c) ==
  StopAgain(c) \/ StopOnce(c) \/ StopListener(c) \/ SetStopped(c) \/ RecordStop(c)

\* What the goroutine of a Start call does by itself, once it holds lifeMu.
StartStep(s) ==
  \/ Listen(s) \/ ListenError(s) \/ SetRunning(s) \/ RecordStart(s) \/ ReadDone(s)
  \/ Loop(s) \/ ClosedAccept(s) \/ CheckDone(s) \/ CountError(s)
  \/ StopStep(s) \/ CloseListener(s)

\* What the network does to a blocked Accept.
Network(s) == Accept(s) \/ RateLimitHit(s) \/ TransientError(s)

\* Every call has been made and has returned.
Terminated == (\A c \in Calls : pc[c] = "returned") /\ UNCHANGED vars

Next ==
  \/ \E s \in Starts : StartLock(s) \/ StartStep(s) \/ Network(s)
  \/ \E c \in Stops : CallStop(c) \/ StopStep(c)
  \/ Terminated

Spec == Init /\ [][Next]_vars

\* The Go scheduler runs every goroutine that is not blocked; nobody is
\* obliged to call Start or Stop, and the network owes nothing.
Fairness ==
  /\ \A s \in Starts : WF_vars(StartStep(s))
  /\ \A c \in Stops : WF_vars(StopStep(c))

FairSpec == Spec /\ Fairness

-----------------------------------------------------------------------------
\* Every variable has its type; the holder of lifeMu is at a step that holds it.
TypeOK ==
  /\ lifeMu \in Calls \cup {None}
  /\ done \in Channels
  /\ closed \in SUBSET Channels
  /\ stopUsed \in BOOLEAN
  /\ listener \in Channels
  /\ open \in SUBSET Starts
  /\ status \in Statuses
  /\ uptime \in BOOLEAN
  /\ pc \in [Calls -> Locations]
  /\ seen \in [Starts -> Channels]
  /\ errors \in [Starts -> 0..MaxAcceptErrors]
  /\ outcome \in [Starts -> {"none", "nil", "listenError", "fatal"}]

\* However calls of Start and Stop overlap, the current done channel is closed
\* exactly when stopOnce has fired: close(t.done) never panics on a closed
\* channel (tcp_client.go:57), and no Stop is swallowed that should have closed it.
ClosedOnce == stopUsed <=> done \in closed

\* Every open listener is the one t.listener names, so the next Stop reaches it:
\* a restart never leaks a listening port.
NoOrphanListener == open \subseteq {listener}

\* Once a Stop has fired and released lifeMu, no listener is open until Start is
\* called again: the port is free for the restart.
StopReleasesListener == stopUsed /\ lifeMu = None => open = {}

\* A Start that served and returned leaves its done channel closed, so every
\* goroutine that watches it (forwardStream) is released.
ReturnedMeansClosed ==
  \A s \in Starts : pc[s] = "returned" /\ outcome[s] # "listenError" => seen[s] \in closed

\* A Start is serving: past its startup, its channel and listener current and not closed.
Serving(s) ==
  /\ pc[s] \in Looping \cup {"recordStart", "readDone"}
  /\ done = s /\ listener = s /\ s \in open /\ s \notin closed

\* With orderly callers Status() says running only while a Start call serves on
\* an open listener (outside the critical section of a Stop).
RunningMeansServing == status = "running" /\ lifeMu = None => \E s \in Starts : Serving(s)

\* With orderly callers the uptime gauge is on exactly from RecordStart to the
\* Stop of that incarnation: "Zero means the tunnel is not running"
\* (metrics.go:30-31).
UptimeMeansServing ==
  lifeMu = None =>
    (uptime <=> \E s \in Starts : /\ pc[s] \in Looping \cup {"readDone", "stop"}
                                  /\ done = s
                                  /\ s \notin closed)

-----------------------------------------------------------------------------
\* Every Stop call returns: it waits for lifeMu only as long as a startup or
\* another Stop lasts.
StopReturns == \A c \in Stops : pc[c] = "stop" ~> pc[c] = "returned"

\* After a Stop has fired every Start in flight returns, unless a new Start
\* comes in: the loop that lost its done channel to an overlapping Start ends
\* by its accept errors.
StopEndsStarts == stopUsed ~> (~stopUsed \/ \A s \in Starts : ~InFlight(s))

\* The life cycle implements the contract of Incarnations, whose FairSpec also
\* says that a stopped tunnel releases its port.
Contract == INSTANCE Incarnations
  WITH Ids <- Starts, current <- done, stopped <- stopUsed, ended <- closed,
       accepting <- IF open = {} THEN None ELSE listener
ImplementsContract == Contract!FairSpec
=============================================================================
