------------------------------ MODULE UdpTunnel -------------------------------
(***************************************************************************)
(* The UDP client and server tunnels (lib/udp/client, lib/udp/server).     *)
(* They hold lifeMu only while they make a new done channel, and open      *)
(* their session and socket after it; the loop forwards datagrams until    *)
(* the channel it has captured is closed.  The client gives up after too   *)
(* many consecutive forward errors, the server after too many consecutive  *)
(* dial errors, between which it sleeps for a growing back-off.  Calls and *)
(* channels are named as in TunnelLifecycle.                               *)
(***************************************************************************)
EXTENDS Integers

CONSTANTS
  Starts,      \* the calls of Start that may be made
  Stops,       \* the calls of Stop that may be made (besides the deferred ones)
  None,        \* no call; the done channel of the constructor
  MaxErrors,   \* maxConsecutiveForwardErrors, maxConsecutiveErrors
  MinBackoff,  \* in some unit of time
  MaxBackoff

ASSUME UdpCallsAssumption == Starts \cap Stops = {} /\ None \notin Starts \cup Stops

ASSUME UdpBoundAssumption == MaxErrors \in Nat \ {0}

\* rand.Int64N panics on a bound that is not positive.
ASSUME BackoffAssumption ==
  MinBackoff \in Nat /\ MaxBackoff \in Nat /\ 2 <= MinBackoff /\ MinBackoff <= MaxBackoff

VARIABLES
  kind,       \* which tunnel this is: "client" or "server"
  lifeMu,     \* the Stop that holds u.lifeMu, or None
  done,       \* u.done
  closed,     \* the done channels that are closed
  stopUsed,   \* u.stopOnce has fired
  socket,     \* the Start call whose local socket is bound (client), or None
  status,     \* u.I2PTunnelStatus
  uptime,     \* u.Metrics.startedAt is not zero
  pc,         \* where each call stands
  errors,     \* consecutiveErrors of each loop
  backoff     \* the back-off of each loop

locked == <<lifeMu, done, closed, stopUsed>>
shown == <<status, uptime>>
retries == <<errors, backoff>>
vars == <<kind, locked, socket, shown, retries, pc>>

Calls == Starts \cup Stops
Opening == {"connect", "bind", "setRunning", "recordStart"}
Forwarding == {"loop", "dial", "dialFailed", "countDial", "forward", "pause"}
Leaving == {"closeSocket", "stop", "setStopped", "recordStop"}
Locations == {"idle", "returned"} \cup Opening \cup Forwarding \cup Leaving

InFlight(c) == pc[c] \notin {"idle", "returned"}
Goto(c, from, to) == pc[c] = from /\ pc' = [pc EXCEPT ![c] = to]

Init ==
  /\ kind \in {"client", "server"}
  /\ lifeMu = None
  /\ done = None
  /\ closed = {}
  /\ stopUsed = FALSE
  /\ socket = None
  /\ status = "stopped"
  /\ uptime = FALSE
  /\ pc = [c \in Calls |-> "idle"]
  /\ errors = [s \in Starts |-> 0]
  /\ backoff = [s \in Starts |-> MinBackoff]

-----------------------------------------------------------------------------
(***************************************************************************)
(* NextBackoff: the delay is doubled, clamped, and then moved by a jitter  *)
(* of a quarter either way: rand.Int64N(next/2) - next/4.                  *)
(***************************************************************************)
\* Slip: the delay is not doubled.
DoubledSlip(current) == current
Doubled(current) == 2 * current

Clamped(d) ==
  IF d > MaxBackoff THEN MaxBackoff ELSE IF d < MinBackoff THEN MinBackoff ELSE d

NextBackoff(current) ==
  LET next == Clamped(Doubled(current))
  IN  {next + r - next \div 4 : r \in 0..(next \div 2 - 1)}

\* Slip: a restart keeps stopOnce as it is.
RearmSlip(s) == done' = s /\ UNCHANGED stopUsed
\* u.done = make(chan struct{}); u.stopOnce = sync.Once{}
Rearm(s) == done' = s /\ stopUsed' = FALSE

\* Slip: the loop watches the channel of another incarnation.
WatchedSlip(s) == None
\* done := u.done, captured under lifeMu.
Watched(s) == s

\* Slip: the delay of the last failures stays.
ResetSlip(s) == UNCHANGED backoff
\* *backoff = udpconst.MinBackoff
Reset(s) == backoff' = [backoff EXCEPT ![s] = MinBackoff]

\* lCon.Close(), when this Start has bound it.
Release(s) == socket' = IF socket = s THEN None ELSE socket

\* Slip: one error too late.
AtLimitSlip(n) == n > MaxErrors
AtLimit(n) == n >= MaxErrors

-----------------------------------------------------------------------------
(***************************************************************************)
(* A restart stops the current incarnation before it starts a new one, and *)
(* does not wait for the old Start to return (embedding Run, webui         *)
(* handleRestart of a running tunnel); a Start that gave up needs no Stop. *)
(***************************************************************************)
MayStart == done \in closed \/ \A s \in Starts : ~InFlight(s)

StartLock(s) ==
  /\ MayStart
  /\ lifeMu = None
  /\ Goto(s, "idle", "connect")
  /\ Rearm(s)
  /\ status' = "starting"
  /\ UNCHANGED <<lifeMu, closed, socket, uptime, retries>>

\* Garlic.Dial or Garlic.ListenPacket.
Connect(s) == Goto(s, "connect", "bind") /\ UNCHANGED <<locked, socket, shown, retries>>

\* It fails: Start returns before anything is deferred.
ConnectError(s) == Goto(s, "connect", "returned") /\ UNCHANGED <<locked, socket, shown, retries>>

\* The client binds its local socket, the server resolves its target.
Bind(s) ==
  /\ Goto(s, "bind", "setRunning")
  /\ \/ kind = "client" /\ socket = None /\ socket' = s
     \/ kind = "server" /\ UNCHANGED socket
  /\ UNCHANGED <<locked, shown, retries>>

BindError(s) == Goto(s, "bind", "stop") /\ UNCHANGED <<locked, socket, shown, retries>>

SetRunning(s) ==
  /\ Goto(s, "setRunning", "recordStart")
  /\ status' = "running"
  /\ UNCHANGED <<locked, socket, uptime, retries>>

RecordStart(s) ==
  /\ Goto(s, "recordStart", "loop")
  /\ uptime' = TRUE
  /\ UNCHANGED <<locked, socket, status, retries>>

-----------------------------------------------------------------------------
Stopped(s) == Watched(s) \in closed

\* select on done, otherwise one more round.
Loop(s) ==
  /\ \/ Stopped(s) /\ Goto(s, "loop", "closeSocket")
     \/ ~Stopped(s) /\ Goto(s, "loop", IF kind = "client" THEN "forward" ELSE "dial")
  /\ UNCHANGED <<locked, socket, shown, retries>>

\* dialAndForward: a dial that succeeds resets the errors and the back-off.
Dial(s) ==
  /\ Goto(s, "dial", "forward")
  /\ errors' = [errors EXCEPT ![s] = 0]
  /\ Reset(s)
  /\ UNCHANGED <<locked, socket, shown>>

DialError(s) == Goto(s, "dial", "dialFailed") /\ UNCHANGED <<locked, socket, shown, retries>>

\* One more error, fatal at the limit; otherwise the loop goes on at `next'.
CountError(s, from, next) ==
  /\ errors' = [errors EXCEPT ![s] = @ + 1]
  /\ \/ AtLimit(errors[s] + 1) /\ Goto(s, from, "closeSocket") /\ status' = "failed"
     \/ ~AtLimit(errors[s] + 1) /\ Goto(s, from, next) /\ UNCHANGED status
  /\ UNCHANGED <<locked, socket, uptime>>

\* handleDialError: nothing is counted once the tunnel is being stopped.
CheckDone(s) ==
  /\ \/ Stopped(s) /\ Goto(s, "dialFailed", "closeSocket")
     \/ ~Stopped(s) /\ Goto(s, "dialFailed", "countDial")
  /\ UNCHANGED <<locked, socket, shown, retries>>

\* Below the limit the loop sleeps, and the next sleep is longer.
CountDialError(s) ==
  /\ CountError(s, "countDial", "loop")
  /\ \/ AtLimit(errors[s] + 1) /\ UNCHANGED backoff
     \/ /\ ~AtLimit(errors[s] + 1)
        /\ \E d \in NextBackoff(backoff[s]) : backoff' = [backoff EXCEPT ![s] = d]

\* packet.Forward ends by itself: idle, or its session or socket is gone.
ForwardEnds(s) ==
  /\ Goto(s, "forward", "pause")
  /\ errors' = [errors EXCEPT ![s] = IF kind = "client" THEN 0 ELSE @]
  /\ UNCHANGED <<locked, socket, shown, backoff>>

\* The client counts an error of Forward even when it is being stopped.
ForwardError(s) ==
  /\ kind = "client"
  /\ CountError(s, "forward", "pause")
  /\ UNCHANGED backoff

\* ShutdownSignal: Forward returns, with or without an error.
ForwardStopped(s) == Stopped(s) /\ (ForwardEnds(s) \/ ForwardError(s))
ForwardBreaks(s) == ~Stopped(s) /\ (ForwardEnds(s) \/ ForwardError(s))

\* select on done and a timer of 100 ms.
Pause(s) ==
  /\ \/ Stopped(s) /\ Goto(s, "pause", "closeSocket")
     \/ ~Stopped(s) /\ Goto(s, "pause", "loop")
  /\ UNCHANGED <<locked, socket, shown, retries>>

\* The deferred lCon.Close() comes first, then Stop, then the session.
CloseSocket(s) ==
  /\ Goto(s, "closeSocket", "stop")
  /\ Release(s)
  /\ UNCHANGED <<locked, shown, retries>>

-----------------------------------------------------------------------------
CallStop(c) == Goto(c, "idle", "stop") /\ UNCHANGED <<locked, socket, shown, retries>>

StopAgain(c) ==
  /\ lifeMu = None
  /\ stopUsed
  /\ Goto(c, "stop", "returned")
  /\ UNCHANGED <<locked, socket, shown, retries>>

\* close(u.done); Garlic.Close()
StopOnce(c) ==
  /\ lifeMu = None
  /\ ~stopUsed
  /\ Goto(c, "stop", "setStopped")
  /\ lifeMu' = c
  /\ stopUsed' = TRUE
  /\ closed' = closed \cup {done}
  /\ UNCHANGED <<done, socket, shown, retries>>

SetStopped(c) ==
  /\ Goto(c, "setStopped", "recordStop")
  /\ status' = "stopped"
  /\ UNCHANGED <<locked, socket, uptime, retries>>

RecordStop(c) ==
  /\ Goto(c, "recordStop", "returned")
  /\ uptime' = FALSE
  /\ lifeMu' = None
  /\ UNCHANGED <<done, closed, stopUsed, socket, status, retries>>

-----------------------------------------------------------------------------
StopStep(c) == StopAgain(c) \/ StopOnce(c) \/ SetStopped(c) \/ RecordStop(c)

\* What the goroutine of a Start does by itself.
StartStep(s) ==
  \/ Connect(s) \/ ConnectError(s) \/ Bind(s) \/ BindError(s) \/ SetRunning(s) \/ RecordStart(s)
  \/ Loop(s) \/ Dial(s) \/ DialError(s) \/ CheckDone(s) \/ CountDialError(s)
  \/ ForwardStopped(s) \/ Pause(s) \/ CloseSocket(s) \/ StopStep(s)

Terminated == (\A c \in Calls : pc[c] = "returned") /\ UNCHANGED vars

Next ==
  /\ \/ \E s \in Starts : StartLock(s) \/ StartStep(s) \/ ForwardBreaks(s)
     \/ \E c \in Stops : CallStop(c) \/ StopStep(c)
     \/ Terminated
  /\ UNCHANGED kind

Spec == Init /\ [][Next]_vars

\* Goroutines that are not blocked run; datagrams and callers owe nothing.
FairSpec ==
  /\ Spec
  /\ \A s \in Starts : WF_vars(StartStep(s) /\ UNCHANGED kind)
  /\ \A c \in Stops : WF_vars(StopStep(c) /\ UNCHANGED kind)

-----------------------------------------------------------------------------
\* Every variable has its type: no delay, and so no bound of rand.Int64N, is ever zero.
UdpTypeOK ==
  /\ kind \in {"client", "server"}
  /\ lifeMu \in Calls \cup {None}
  /\ done \in Starts \cup {None}
  /\ closed \in SUBSET (Starts \cup {None})
  /\ stopUsed \in BOOLEAN
  /\ socket \in Starts \cup {None}
  /\ status \in {"stopped", "starting", "running", "failed"}
  /\ uptime \in BOOLEAN
  /\ pc \in [Calls -> Locations]
  /\ errors \in [Starts -> 0..MaxErrors]
  /\ backoff \in [Starts -> Nat \ {0}]

\* The delay is the minimum exactly until a dial fails, and again from the dial
\* that succeeds: no back-off survives the errors it was made of.
BackoffFollowsErrors ==
  \A s \in Starts :
    /\ errors[s] = 0 => backoff[s] = MinBackoff
    /\ kind = "server" /\ errors[s] \in 1..(MaxErrors - 1) => backoff[s] > MinBackoff

\* const.go:37-38: every retry waits longer than the one before it, until the
\* delay is within the jitter of the ceiling, and never more than a quarter over it.
BackoffGrows ==
  [][\A s \in Starts :
       backoff'[s] # backoff[s] /\ backoff'[s] # MinBackoff =>
         /\ backoff'[s] > backoff[s] \/ 4 * backoff'[s] >= 3 * MaxBackoff
         /\ 4 * backoff'[s] <= 5 * MaxBackoff]_backoff

\* Stop ends the Start whose channel it has closed, wherever that stands: opening
\* its session, sleeping, or forwarding.
StoppedStartReturns == \A s \in Starts : s \in closed /\ InFlight(s) ~> pc[s] = "returned"

-----------------------------------------------------------------------------
\* The Start of a client that forwards the datagrams of the local socket.
Forwarder ==
  IF kind = "client" /\ socket # None /\ pc[socket] \in {"forward", "pause"} THEN socket ELSE None

\* Although Start makes its channel in a critical section of its own and opens its
\* socket after it, the contract of Incarnations is kept, where who accepts is who
\* forwards: each channel is new and closed once, a forward begins only on the
\* current channel and before a Stop, and two never share the port.
Contract == INSTANCE Incarnations
  WITH Ids <- Starts, current <- done, stopped <- stopUsed, ended <- closed,
       accepting <- Forwarder
UdpImplementsContract == Contract!Spec
=============================================================================
