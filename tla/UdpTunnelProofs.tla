--------------------------- MODULE UdpTunnelProofs ----------------------------
(***************************************************************************)
(* What holds of the retries of the UDP tunnels for every choice of the    *)
(* error limit and of the shortest and longest delay.                      *)
(***************************************************************************)
EXTENDS UdpTunnel, TLAPS

\* const.go:40-51: the bound handed to rand.Int64N is positive, the next delay is
\* positive, at most a quarter over the ceiling, and longer than the last one
\* unless it is within a quarter of the ceiling.
LEMMA NextBackoffBounds ==
  ASSUME NEW current \in Nat \ {0}, NEW d \in NextBackoff(current)
  PROVE  /\ Clamped(2 * current) \div 2 >= 1
         /\ d \in Nat \ {0}
         /\ d > current \/ 4 * d >= 3 * MaxBackoff
         /\ 4 * d <= 5 * MaxBackoff
<1> DEFINE next == Clamped(2 * current)
<1>1. next \in Nat /\ 2 <= next /\ next <= MaxBackoff
  BY BackoffAssumption DEF Clamped
<1>2. next >= 2 * current \/ next = MaxBackoff
  BY BackoffAssumption DEF Clamped
<1>3. PICK r \in 0..(next \div 2 - 1) : d = next + r - next \div 4
  BY DEF NextBackoff, Doubled
<1> HIDE DEF next
<1>4. next \div 2 \in Nat /\ next \div 4 \in Nat /\ 4 * (next \div 4) <= next
      /\ 2 * (next \div 2) <= next /\ next < 4 * (next \div 4) + 4 /\ next < 2 * (next \div 2) + 2
  BY <1>1
<1>5. r \in Nat /\ r + 1 <= next \div 2
  BY <1>3, <1>4
<1>6. d \in Int /\ 4 * d >= 3 * next
  BY <1>1, <1>3, <1>4, <1>5
<1>7. 4 * d <= 5 * next
  BY <1>1, <1>3, <1>4, <1>5
<1>8. next \div 2 >= 1
  BY <1>1, <1>4
<1>9. d > current \/ 4 * d >= 3 * MaxBackoff
  BY <1>1, <1>2, <1>6
<1> QED
  BY <1>1, <1>6, <1>7, <1>8, <1>9, BackoffAssumption DEF next

\* What a step does to the delays: it resets one, or makes one the next.
LEMMA BackoffSteps ==
  ASSUME UdpTypeOK, [Next]_vars
  PROVE  \/ UNCHANGED backoff
         \/ \E s \in Starts : \E d \in NextBackoff(backoff[s]) \cup {MinBackoff} :
              backoff' = [backoff EXCEPT ![s] = d]
<1> USE DEF retries
<1>1. ASSUME NEW c \in Calls, StopStep(c) \/ CallStop(c) PROVE UNCHANGED backoff
  BY <1>1 DEF StopStep, CallStop, StopAgain, StopOnce, SetStopped, RecordStop
<1>2. ASSUME NEW s \in Starts, StartLock(s) PROVE UNCHANGED backoff
  BY <1>2 DEF StartLock
<1>3. ASSUME NEW s \in Starts, StartStep(s) \/ ForwardBreaks(s), ~StopStep(s)
      PROVE  \/ UNCHANGED backoff
             \/ \E d \in NextBackoff(backoff[s]) \cup {MinBackoff} :
                  backoff' = [backoff EXCEPT ![s] = d]
  <2>1. CASE Dial(s) \/ CountDialError(s)
    BY <2>1 DEF Dial, Reset, CountDialError
  <2>2. CASE \/ Connect(s) \/ ConnectError(s) \/ Bind(s) \/ BindError(s) \/ SetRunning(s)
             \/ RecordStart(s) \/ Loop(s) \/ DialError(s) \/ CheckDone(s) \/ Pause(s) \/ CloseSocket(s)
    BY <2>2 DEF Connect, ConnectError, Bind, BindError, SetRunning, RecordStart, Loop, DialError,
                CheckDone, Pause, CloseSocket
  <2>3. CASE ForwardStopped(s) \/ ForwardBreaks(s)
    BY <2>3 DEF ForwardStopped, ForwardBreaks, ForwardEnds, ForwardError
  <2> QED
    BY <1>3, <2>1, <2>2, <2>3 DEF StartStep
<1>4. CASE Terminated \/ UNCHANGED vars
  BY <1>4 DEF Terminated, vars
<1> QED
  BY <1>1, <1>2, <1>3, <1>4 DEF Next, Calls

-----------------------------------------------------------------------------
\* A loop that goes on has counted fewer errors than the limit.
UdpCountInv ==
  \A s \in Starts : pc[s] \in {"idle"} \cup Opening \cup Forwarding => errors[s] < MaxErrors

\* The type invariant holds: no delay is ever zero, no count beyond the limit.
THEOREM UdpTypeCorrect == Spec => [](UdpTypeOK /\ UdpCountInv)
<1> USE DEF Calls, Locations, Opening, Forwarding, Leaving
<1>1. Init => UdpTypeOK /\ UdpCountInv
  <2> SUFFICES ASSUME Init PROVE UdpTypeOK /\ UdpCountInv
    OBVIOUS
  <2>1. pc \in [Calls -> Locations] /\ backoff \in [Starts -> Nat \ {0}]
    BY BackoffAssumption DEF Init
  <2>2. errors \in [Starts -> 0..MaxErrors] /\ UdpCountInv
    BY UdpBoundAssumption DEF Init, UdpCountInv
  <2> QED
    BY <2>1, <2>2 DEF Init, UdpTypeOK
<1>2. UdpTypeOK /\ UdpCountInv /\ [Next]_vars => UdpTypeOK' /\ UdpCountInv'
  <2> SUFFICES ASSUME UdpTypeOK, UdpCountInv, [Next]_vars PROVE UdpTypeOK' /\ UdpCountInv'
    OBVIOUS
  <2>1. backoff' \in [Starts -> Nat \ {0}]
    <3>1. ASSUME NEW s \in Starts, NEW d \in NextBackoff(backoff[s]) \cup {MinBackoff},
                 backoff' = [backoff EXCEPT ![s] = d]
          PROVE  backoff' \in [Starts -> Nat \ {0}]
      <4>1. d \in Nat \ {0}
        BY NextBackoffBounds, BackoffAssumption DEF UdpTypeOK
      <4> QED
        BY <3>1, <4>1 DEF UdpTypeOK
    <3> QED
      BY <3>1, BackoffSteps DEF UdpTypeOK
  <2> DEFINE Rest == /\ kind' \in {"client", "server"}
                     /\ lifeMu' \in Calls \cup {None}
                     /\ done' \in Starts \cup {None}
                     /\ closed' \in SUBSET (Starts \cup {None})
                     /\ stopUsed' \in BOOLEAN
                     /\ socket' \in Starts \cup {None}
                     /\ status' \in {"stopped", "starting", "running", "failed"}
                     /\ uptime' \in BOOLEAN
                     /\ pc' \in [Calls -> Locations]
                     /\ errors' \in [Starts -> 0..MaxErrors]
                     /\ UdpCountInv'
  <2> USE UdpBoundAssumption DEF UdpTypeOK, UdpCountInv, Goto, locked, shown, retries
  <2>2. ASSUME NEW s \in Starts, StartLock(s), UNCHANGED kind PROVE Rest
    BY <2>2 DEF StartLock, Rearm
  <2>3. ASSUME NEW s \in Starts, StartStep(s) \/ ForwardBreaks(s), UNCHANGED kind PROVE Rest
    <3>1. CASE \/ Connect(s) \/ ConnectError(s) \/ Bind(s) \/ BindError(s)
      BY <2>3, <3>1 DEF Connect, ConnectError, Bind, BindError
    <3>2. CASE SetRunning(s) \/ RecordStart(s)
      BY <2>3, <3>2 DEF SetRunning, RecordStart
    <3>3. CASE Loop(s) \/ DialError(s) \/ CheckDone(s) \/ Pause(s)
      BY <2>3, <3>3 DEF Loop, DialError, CheckDone, Pause
    <3>4. CASE Dial(s)
      BY <2>3, <3>4 DEF Dial
    <3>5. ASSUME NEW from \in {"countDial", "forward"}, NEW next \in {"loop", "pause"},
                 CountError(s, from, next)
          PROVE  Rest
      <4>1. errors' = [errors EXCEPT ![s] = errors[s] + 1] /\ pc[s] = from
        BY <3>5 DEF CountError
      <4>2. errors' \in [Starts -> 0..MaxErrors]
        BY <4>1
      <4>3. CASE AtLimit(errors[s] + 1)
        BY <2>3, <3>5, <4>1, <4>2, <4>3 DEF CountError
      <4>4. CASE ~AtLimit(errors[s] + 1)
        <5>1. errors[s] + 1 < MaxErrors
          BY <4>1, <4>4 DEF AtLimit
        <5> QED
          BY <2>3, <3>5, <4>1, <4>2, <4>4, <5>1 DEF CountError
      <4> QED
        BY <4>3, <4>4
    <3>6. CASE CountDialError(s)
      BY <3>5, <3>6 DEF CountDialError
    <3>7. CASE ForwardStopped(s) \/ ForwardBreaks(s)
      <4>1. CASE ForwardEnds(s)
        BY <2>3, <4>1 DEF ForwardEnds
      <4>2. CASE ForwardError(s)
        BY <3>5, <4>2 DEF ForwardError
      <4> QED
        BY <3>7, <4>1, <4>2 DEF ForwardStopped, ForwardBreaks
    <3>8. CASE CloseSocket(s)
      BY <2>3, <3>8 DEF CloseSocket, Release
    <3>9. CASE StopStep(s)
      BY <2>3, <3>9 DEF StopStep, StopAgain, StopOnce, SetStopped, RecordStop
    <3> QED
      BY <2>3, <3>1, <3>2, <3>3, <3>4, <3>6, <3>7, <3>8, <3>9 DEF StartStep
  <2>4. ASSUME NEW c \in Stops, CallStop(c) \/ StopStep(c), UNCHANGED kind PROVE Rest
    BY <2>4, UdpCallsAssumption DEF CallStop, StopStep, StopAgain, StopOnce, SetStopped, RecordStop
  <2>5. ASSUME (Terminated /\ UNCHANGED kind) \/ UNCHANGED vars PROVE Rest
    BY <2>5 DEF Terminated, vars
  <2> HIDE DEF UdpTypeOK, UdpCountInv, Rest
  <2>6. Rest
    BY <2>2, <2>3, <2>4, <2>5 DEF Next
  <2> QED
    BY <2>1, <2>6 DEF UdpTypeOK, Rest
<1> QED
  BY <1>1, <1>2, PTL DEF Spec

-----------------------------------------------------------------------------
\* const.go:37-38 on every run: a retry waits longer than the one before it,
\* until the delay is within the jitter of the ceiling.
THEOREM BackoffGrowsCorrect == Spec => BackoffGrows
<1> DEFINE Grows(s) ==
      backoff'[s] # backoff[s] /\ backoff'[s] # MinBackoff =>
        /\ backoff'[s] > backoff[s] \/ 4 * backoff'[s] >= 3 * MaxBackoff
        /\ 4 * backoff'[s] <= 5 * MaxBackoff
<1>1. UdpTypeOK /\ [Next]_vars => [\A s \in Starts : Grows(s)]_backoff
  <2> SUFFICES ASSUME UdpTypeOK, [Next]_vars, NEW s \in Starts PROVE Grows(s)
    OBVIOUS
  <2>1. ASSUME NEW t \in Starts, NEW d \in NextBackoff(backoff[t]) \cup {MinBackoff},
               backoff' = [backoff EXCEPT ![t] = d]
        PROVE  Grows(s)
    <3>1. CASE s # t \/ d = MinBackoff
      BY <2>1, <3>1 DEF UdpTypeOK
    <3>2. CASE s = t /\ d \in NextBackoff(backoff[s])
      <4>1. backoff'[s] = d /\ backoff[s] \in Nat \ {0}
        BY <2>1, <3>2 DEF UdpTypeOK
      <4> QED
        BY <3>2, <4>1, NextBackoffBounds
    <3> QED
      BY <2>1, <3>1, <3>2
  <2> QED
    BY <2>1, BackoffSteps
<1> QED
  BY <1>1, UdpTypeCorrect, PTL DEF Spec, BackoffGrows

-----------------------------------------------------------------------------
\* The current done channel is closed exactly when stopOnce has fired, although
\* Start makes it in a critical section of its own and works on after it.
UdpClosedOnce == stopUsed <=> done \in closed

\* A channel that has not been made is neither current nor closed.
UdpFreshInv == \A s \in Starts : pc[s] = "idle" => s \notin closed /\ s # done

\* What a step does to the done channel and to stopOnce; no call becomes idle again,
\* and only StartLock puts a Start in flight.
LEMMA UdpChannelSteps ==
  ASSUME UdpTypeOK, [Next]_vars
  PROVE  /\ \/ \E s \in Starts : StartLock(s)
            \/ \E c \in Calls : StopOnce(c)
            \/ UNCHANGED <<done, closed, stopUsed>>
         /\ \A c \in Calls : pc'[c] = "idle" => pc[c] = "idle"
         /\ \A s \in Starts : InFlight(s)' => InFlight(s) \/ StartLock(s)
<1> DEFINE NoneIdle == /\ \A c \in Calls : pc'[c] = "idle" => pc[c] = "idle"
                       /\ \A s \in Starts : InFlight(s)' => InFlight(s) \/ StartLock(s)
<1> DEFINE Quiet == UNCHANGED <<done, closed, stopUsed>>
<1> USE UdpCallsAssumption DEF UdpTypeOK, Calls, Goto, locked, InFlight
<1>1. ASSUME NEW s \in Starts, StartLock(s) PROVE NoneIdle
  BY <1>1 DEF StartLock
<1>2. ASSUME NEW c \in Calls, (c \in Stops /\ CallStop(c)) \/ StopStep(c)
      PROVE  (StopOnce(c) \/ Quiet) /\ NoneIdle
  BY <1>2 DEF CallStop, StopStep, StopAgain, StopOnce, SetStopped, RecordStop
<1>3. ASSUME NEW s \in Starts, StartStep(s) \/ ForwardBreaks(s), ~StopStep(s) PROVE Quiet /\ NoneIdle
  <2>1. CASE Connect(s) \/ ConnectError(s) \/ Bind(s) \/ BindError(s) \/ SetRunning(s) \/ RecordStart(s)
    BY <2>1 DEF Connect, ConnectError, Bind, BindError, SetRunning, RecordStart
  <2>2. CASE \/ Loop(s) \/ Dial(s) \/ DialError(s) \/ CheckDone(s) \/ CountDialError(s)
             \/ Pause(s) \/ CloseSocket(s)
    BY <2>2 DEF Loop, Dial, DialError, CheckDone, CountDialError, CountError, Pause, CloseSocket
  <2>3. CASE ForwardStopped(s) \/ ForwardBreaks(s)
    BY <2>3 DEF ForwardStopped, ForwardBreaks, ForwardEnds, ForwardError, CountError
  <2> QED
    BY <1>3, <2>1, <2>2, <2>3 DEF StartStep
<1>4. CASE Terminated \/ UNCHANGED vars
  BY <1>4 DEF Terminated, vars
<1> QED
  BY <1>1, <1>2, <1>3, <1>4 DEF Next

\* udp_client.go and udp_server.go: however restarts and Stops overlap, close(u.done) is
\* never called on a closed channel, and never left out when stopOnce fires.
THEOREM UdpClosedOnceCorrect == Spec => [](UdpClosedOnce /\ UdpFreshInv)
<1>1. Init => UdpClosedOnce /\ UdpFreshInv
  BY UdpCallsAssumption DEF Init, UdpClosedOnce, UdpFreshInv
<1>2. UdpTypeOK /\ UdpClosedOnce /\ UdpFreshInv /\ [Next]_vars => UdpClosedOnce' /\ UdpFreshInv'
  <2> SUFFICES ASSUME UdpTypeOK, UdpClosedOnce, UdpFreshInv, [Next]_vars
               PROVE  UdpClosedOnce' /\ UdpFreshInv'
    OBVIOUS
  <2>1. \A c \in Calls : pc'[c] = "idle" => pc[c] = "idle"
    BY UdpChannelSteps
  <2>2. ASSUME NEW s \in Starts, StartLock(s) PROVE UdpClosedOnce' /\ UdpFreshInv'
    <3>1. pc[s] = "idle" /\ pc'[s] = "connect" /\ UNCHANGED closed /\ done' = s /\ ~stopUsed'
      BY <2>2 DEF StartLock, Rearm, Goto, UdpTypeOK, Calls
    <3> QED
      BY <2>1, <3>1 DEF UdpClosedOnce, UdpFreshInv, Calls
  <2>3. ASSUME NEW c \in Calls, StopOnce(c) PROVE UdpClosedOnce' /\ UdpFreshInv'
    BY <2>1, <2>3 DEF StopOnce, UdpClosedOnce, UdpFreshInv, Calls
  <2>4. CASE UNCHANGED <<done, closed, stopUsed>>
    BY <2>1, <2>4 DEF UdpClosedOnce, UdpFreshInv, Calls
  <2> QED
    BY <2>2, <2>3, <2>4, UdpChannelSteps
<1> QED
  BY <1>1, <1>2, UdpTypeCorrect, PTL DEF Spec

-----------------------------------------------------------------------------
\* The delays lie so far apart that the jitter cannot bring one back to the
\* shortest; const.go has 50 milliseconds and 5 seconds.
RetriesApart == 4 * MinBackoff < 3 * MaxBackoff

\* No delay is shorter than the shortest, and the client, which never dials in its
\* loop, has that one.
BackoffInv ==
  \A s \in Starts :
    /\ backoff[s] >= MinBackoff
    /\ kind = "client" => pc[s] \notin {"dial", "dialFailed", "countDial"} /\ backoff[s] = MinBackoff

\* The delay goes with the errors it was made of: it is the shortest exactly
\* while no dial has failed since the last one that succeeded.
THEOREM BackoffFollowsErrorsCorrect ==
  ASSUME RetriesApart
  PROVE  Spec => [](BackoffFollowsErrors /\ BackoffInv)
<1> DEFINE Good == BackoffFollowsErrors /\ BackoffInv
<1> USE DEF BackoffFollowsErrors, BackoffInv
<1>1. Init => Good
  BY BackoffAssumption DEF Init, Calls
<1>2. UdpTypeOK /\ UdpCountInv /\ Good /\ [Next]_vars => Good'
  <2> SUFFICES ASSUME UdpTypeOK, UdpCountInv, Good, [Next]_vars PROVE Good'
    OBVIOUS
  <2> USE UdpBoundAssumption, BackoffAssumption DEF UdpTypeOK, UdpCountInv, Forwarding, Opening, Goto, retries, Calls
  <2>1. ASSUME NEW s \in Starts, StartLock(s), UNCHANGED kind PROVE Good'
    BY <2>1 DEF StartLock
  <2>2. ASSUME NEW s \in Starts, StartStep(s) \/ ForwardBreaks(s), ~StopStep(s), UNCHANGED kind PROVE Good'
    <3>1. CASE Connect(s) \/ ConnectError(s) \/ Bind(s) \/ BindError(s) \/ SetRunning(s) \/ RecordStart(s)
      BY <2>2, <3>1 DEF Connect, ConnectError, Bind, BindError, SetRunning, RecordStart
    <3>2. CASE Loop(s) \/ DialError(s) \/ CheckDone(s) \/ Pause(s) \/ CloseSocket(s)
      BY <2>2, <3>2 DEF Loop, DialError, CheckDone, Pause, CloseSocket
    <3>3. CASE Dial(s)
      BY <2>2, <3>3 DEF Dial, Reset
    <3>4. CASE CountDialError(s)
      <4>1. /\ kind = "server" /\ pc[s] = "countDial" /\ errors[s] \in Nat /\ errors[s] < MaxErrors
            /\ errors' = [errors EXCEPT ![s] = errors[s] + 1]
        BY <3>4 DEF CountDialError, CountError
      <4>2. CASE AtLimit(errors[s] + 1)
        <5>1. UNCHANGED backoff /\ errors'[s] >= MaxErrors /\ \A t \in Starts : t # s => errors'[t] = errors[t]
          BY <3>4, <4>1, <4>2 DEF CountDialError, AtLimit
        <5>2. pc' = [pc EXCEPT ![s] = "closeSocket"]
          BY <3>4, <4>2 DEF CountDialError, CountError
        <5> QED
          BY <2>2, <4>1, <5>1, <5>2
      <4>3. CASE ~AtLimit(errors[s] + 1)
        <5>1. PICK d \in NextBackoff(backoff[s]) : backoff' = [backoff EXCEPT ![s] = d]
          BY <3>4, <4>3 DEF CountDialError
        <5>2. d \in Nat /\ (d > backoff[s] \/ 4 * d >= 3 * MaxBackoff)
          BY NextBackoffBounds
        <5>3. d > MinBackoff
          BY <5>2 DEF RetriesApart
        <5>4. pc' = [pc EXCEPT ![s] = "loop"]
          BY <3>4, <4>3 DEF CountDialError, CountError
        <5>5. \A t \in Starts : t # s => errors'[t] = errors[t] /\ backoff'[t] = backoff[t] /\ pc'[t] = pc[t]
          BY <4>1, <5>1, <5>4
        <5>6. errors'[s] # 0 /\ backoff'[s] > MinBackoff /\ pc'[s] = "loop"
          BY <4>1, <5>1, <5>2, <5>3, <5>4
        <5>7. backoff'[s] >= MinBackoff
          BY <5>6, <5>2, <5>1
        <5> QED
          BY <2>2, <4>1, <5>5, <5>6, <5>7
      <4> QED
        BY <4>2, <4>3
    <3>5. CASE ForwardStopped(s) \/ ForwardBreaks(s)
      BY <2>2, <3>5 DEF ForwardStopped, ForwardBreaks, ForwardEnds, ForwardError, CountError
    <3> QED
      BY <2>2, <3>1, <3>2, <3>3, <3>4, <3>5 DEF StartStep
  <2>3. ASSUME NEW c \in Calls, CallStop(c) \/ StopStep(c), UNCHANGED kind PROVE Good'
    BY <2>3 DEF CallStop, StopStep, StopAgain, StopOnce, SetStopped, RecordStop
  <2>4. CASE (Terminated /\ UNCHANGED kind) \/ UNCHANGED vars
    BY <2>4 DEF Terminated, vars
  <2> QED
    BY <2>1, <2>2, <2>3, <2>4 DEF Next
<1> QED
  BY <1>1, <1>2, UdpTypeCorrect, PTL DEF Spec

-----------------------------------------------------------------------------
\* A Start in flight whose channel is no longer the field's has been told to stop: no
\* restart leaves a loop behind that nobody can end.
UdpLatestInv == \A s \in Starts : InFlight(s) => s = done \/ s \in closed

\* udp_client.go and udp_server.go: whatever restarts overlap, every Start in flight is
\* the one Stop would end, or has been told to end.
THEOREM UdpLatestCorrect == Spec => []UdpLatestInv
<1>1. Init => UdpLatestInv
  BY DEF Init, UdpLatestInv, InFlight, Calls
<1>2. UdpTypeOK /\ UdpLatestInv /\ [Next]_vars => UdpLatestInv'
  <2> SUFFICES ASSUME UdpTypeOK, UdpLatestInv, [Next]_vars PROVE UdpLatestInv'
    OBVIOUS
  <2>1. ASSUME NEW s \in Starts, StartLock(s) PROVE UdpLatestInv'
    <3>1. /\ pc' = [pc EXCEPT ![s] = "connect"] /\ done' = s /\ UNCHANGED closed
          /\ done \in closed \/ \A t \in Starts : ~InFlight(t)
      BY <2>1 DEF StartLock, Rearm, Goto, MayStart
    <3>2. ASSUME NEW t \in Starts, t # s, InFlight(t)' PROVE t \in closed
      BY <3>1, <3>2 DEF UdpTypeOK, UdpLatestInv, InFlight, Calls
    <3> QED
      BY <3>1, <3>2 DEF UdpLatestInv
  <2>2. ASSUME \A s \in Starts : ~StartLock(s) PROVE UdpLatestInv'
    <3>1. UNCHANGED done /\ closed \subseteq closed'
      BY <2>2, UdpChannelSteps DEF StopOnce
    <3> QED
      BY <2>2, <3>1, UdpChannelSteps DEF UdpLatestInv
  <2> QED
    BY <2>1, <2>2
<1> QED
  BY <1>1, <1>2, UdpTypeCorrect, PTL DEF Spec

\* The local socket of a client is that of the Start that has bound it and not yet
\* closed it; a server has none.  The loop of a client does not dial.
HasSocket == {"setRunning", "recordStart", "closeSocket"} \cup Forwarding
UdpSocketInv ==
  /\ kind = "server" => socket = None
  /\ kind = "client" => \A s \in Starts : /\ socket = s <=> pc[s] \in HasSocket
                                          /\ pc[s] \notin {"dial", "dialFailed", "countDial"}

\* What a step does to the socket and to the places of the calls.
LEMMA UdpSocketSteps ==
  ASSUME UdpTypeOK, UdpSocketInv, [Next]_vars
  PROVE  UdpSocketInv'
<1> USE UdpCallsAssumption DEF UdpTypeOK, UdpSocketInv, HasSocket, Forwarding, Calls, Goto
<1>1. ASSUME NEW s \in Starts, StartLock(s), UNCHANGED kind PROVE UdpSocketInv'
  BY <1>1 DEF StartLock
<1>2. ASSUME NEW s \in Starts, StartStep(s) \/ ForwardBreaks(s), ~StopStep(s), UNCHANGED kind PROVE UdpSocketInv'
  <2>1. CASE Connect(s) \/ ConnectError(s) \/ BindError(s) \/ SetRunning(s) \/ RecordStart(s)
    BY <1>2, <2>1 DEF Connect, ConnectError, BindError, SetRunning, RecordStart
  <2>2. CASE Bind(s)
    BY <1>2, <2>2 DEF Bind
  <2>3. CASE Loop(s) \/ Pause(s)
    BY <1>2, <2>3 DEF Loop, Pause
  <2>6. CASE Dial(s) \/ DialError(s) \/ CheckDone(s) \/ CountDialError(s)
    <3>1. pc[s] \in {"dial", "dialFailed", "countDial"} /\ UNCHANGED socket
      BY <2>6 DEF Dial, DialError, CheckDone, CountDialError, CountError
    <3>2. kind' = "server" /\ socket' = None
      BY <1>2, <3>1
    <3> QED
      BY <3>2
  <2>4. CASE ForwardStopped(s) \/ ForwardBreaks(s)
    BY <1>2, <2>4 DEF ForwardStopped, ForwardBreaks, ForwardEnds, ForwardError, CountError
  <2>5. CASE CloseSocket(s)
    BY <1>2, <2>5 DEF CloseSocket, Release
  <2> QED
    BY <1>2, <2>1, <2>2, <2>3, <2>4, <2>5, <2>6 DEF StartStep
<1>3. ASSUME NEW c \in Calls, (c \in Stops /\ CallStop(c)) \/ StopStep(c), UNCHANGED kind PROVE UdpSocketInv'
  BY <1>3 DEF CallStop, StopStep, StopAgain, StopOnce, SetStopped, RecordStop
<1>4. CASE (Terminated /\ UNCHANGED kind) \/ UNCHANGED vars
  BY <1>4 DEF Terminated, vars
<1> QED
  BY <1>1, <1>2, <1>3, <1>4 DEF Next

\* udp_client.go: every way out of Start that has bound the local socket closes it, the
\* Start that gave up and the one that is stopped while it comes up included.
THEOREM UdpSocketCorrect == Spec => []UdpSocketInv
<1>1. Init => UdpSocketInv
  BY UdpCallsAssumption DEF Init, UdpSocketInv, HasSocket, Forwarding, Calls
<1> QED
  BY <1>1, UdpSocketSteps, UdpTypeCorrect, PTL DEF Spec

\* Only the loop of the current Start comes to forward, before a Stop; what else a
\* step does to the Start that forwards is to end it.
LEMMA ForwarderSteps ==
  ASSUME UdpTypeOK, UdpClosedOnce, UdpLatestInv, UdpSocketInv, [Next]_vars
  PROVE  \/ Forwarder' = Forwarder
         \/ /\ UNCHANGED <<done, closed, stopUsed>>
            /\ \/ Forwarder = None /\ Forwarder' = done /\ done # None /\ ~stopUsed
               \/ Forwarder # None /\ Forwarder' = None
<1> USE UdpCallsAssumption
    DEF UdpTypeOK, UdpSocketInv, HasSocket, Forwarding, Forwarder, Calls, Goto, locked
<1>1. ASSUME NEW s \in Starts, StartLock(s), UNCHANGED kind PROVE Forwarder' = Forwarder
  BY <1>1 DEF StartLock
<1>2. ASSUME NEW s \in Starts, UNCHANGED kind,
             Connect(s) \/ ConnectError(s) \/ Bind(s) \/ BindError(s) \/ SetRunning(s) \/ RecordStart(s)
      PROVE  Forwarder' = Forwarder
  BY <1>2 DEF Connect, ConnectError, Bind, BindError, SetRunning, RecordStart
<1>3. ASSUME NEW s \in Starts, UNCHANGED kind, Loop(s)
      PROVE  \/ Forwarder' = Forwarder
             \/ /\ UNCHANGED <<done, closed, stopUsed>>
                /\ Forwarder = None /\ Forwarder' = done /\ done # None /\ ~stopUsed
  <2>1. CASE kind = "server" \/ Stopped(s)
    BY <1>3, <2>1 DEF Loop
  <2>2. CASE kind = "client" /\ ~Stopped(s)
    <3>1. s = done /\ ~stopUsed
      BY <1>3, <2>2 DEF Loop, Stopped, Watched, UdpLatestInv, UdpClosedOnce, InFlight
    <3>2. socket = s /\ pc[s] = "loop" /\ pc'[s] = "forward" /\ UNCHANGED <<done, closed, stopUsed, socket>>
      BY <1>3, <2>2 DEF Loop
    <3> QED
      BY <1>3, <2>2, <3>1, <3>2
  <2> QED
    BY <2>1, <2>2
<1>4. ASSUME NEW s \in Starts, UNCHANGED kind, Dial(s) \/ DialError(s) \/ CheckDone(s) \/ CountDialError(s)
      PROVE  Forwarder' = Forwarder
  <2>1. /\ pc[s] \in {"dial", "dialFailed", "countDial"} /\ UNCHANGED socket
        /\ \A t \in Starts : t # s => pc'[t] = pc[t]
    BY <1>4 DEF Dial, DialError, CheckDone, CountDialError, CountError
  <2> QED
    BY <1>4, <2>1
<1>5. ASSUME NEW s \in Starts, UNCHANGED kind, ForwardStopped(s) \/ ForwardBreaks(s) \/ Pause(s)
      PROVE  \/ Forwarder' = Forwarder
             \/ UNCHANGED <<done, closed, stopUsed>> /\ Forwarder # None /\ Forwarder' = None
  <2>1. /\ pc[s] \in {"forward", "pause"} /\ UNCHANGED <<done, closed, stopUsed, socket>>
        /\ \E to \in {"pause", "loop", "closeSocket"} : pc' = [pc EXCEPT ![s] = to]
    BY <1>5 DEF ForwardStopped, ForwardBreaks, ForwardEnds, ForwardError, CountError, Pause
  <2> QED
    BY <1>5, <2>1
<1>6. ASSUME NEW s \in Starts, UNCHANGED kind, CloseSocket(s) PROVE Forwarder' = Forwarder
  BY <1>6 DEF CloseSocket, Release
<1>7. ASSUME NEW c \in Calls, (c \in Stops /\ CallStop(c)) \/ StopStep(c), UNCHANGED kind
      PROVE  Forwarder' = Forwarder
  BY <1>7 DEF CallStop, StopStep, StopAgain, StopOnce, SetStopped, RecordStop
<1>8. CASE (Terminated /\ UNCHANGED kind) \/ UNCHANGED vars
  BY <1>8 DEF Terminated, vars
<1> QED
  BY <1>1, <1>2, <1>3, <1>4, <1>5, <1>6, <1>7, <1>8 DEF Next, StartStep

\* The UDP tunnels implement the contract that the TCP tunnels implement, although they
\* open their socket outside of the critical section that begins the incarnation:
\* StartLock begins one, a Stop ends it, the loop binds by going on to forward.
THEOREM UdpRefinesContract == Spec => UdpImplementsContract
<1> DEFINE Facts == UdpTypeOK /\ UdpClosedOnce /\ UdpFreshInv /\ UdpLatestInv /\ UdpSocketInv
<1>1. Init => Contract!Init
  BY DEF Init, Contract!Init, Forwarder
<1>2. Facts /\ [Next]_vars => [Contract!Next]_(Contract!vars)
  <2> SUFFICES ASSUME Facts, [Next]_vars PROVE Contract!Next \/ UNCHANGED Contract!vars
    OBVIOUS
  <2> USE DEF Contract!Next, Contract!vars
  <2>1. CASE Forwarder' # Forwarder
    BY <2>1, ForwarderSteps DEF Contract!Bind, Contract!Unbind
  <2>2. ASSUME Forwarder' = Forwarder, NEW s \in Starts, StartLock(s) PROVE Contract!Begin(s)
    BY <2>2 DEF StartLock, Rearm, Goto, UdpFreshInv, Contract!Begin
  <2>3. ASSUME Forwarder' = Forwarder, NEW c \in Calls, StopOnce(c) PROVE Contract!Halt
    BY <2>3 DEF StopOnce, UdpClosedOnce, Contract!Halt
  <2>4. CASE Forwarder' = Forwarder /\ UNCHANGED <<done, closed, stopUsed>>
    BY <2>4
  <2> QED
    BY <2>1, <2>2, <2>3, <2>4, UdpChannelSteps
<1> QED
  BY <1>1, <1>2, UdpTypeCorrect, UdpClosedOnceCorrect, UdpLatestCorrect, UdpSocketCorrect, PTL
  DEF Spec, UdpImplementsContract, Contract!Spec
=============================================================================
