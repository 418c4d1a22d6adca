------------------------ MODULE TunnelLifecycleProofs ------------------------
(***************************************************************************)
(* What holds of TunnelLifecycle for any calls of Start and Stop, any      *)
(* accept-error limit and every choice of its flags.                       *)
(***************************************************************************)
EXTENDS TunnelLifecycle, TLAPS

\* The steps at which a call holds lifeMu.
Holding == {"listen", "closePort", "setStopped", "recordStop"}

\* A call is at such a step exactly when it holds lifeMu; while a Start holds
\* it, done is its own and stopOnce armed; while a Stop holds it, stopOnce has fired.
LockInv ==
  /\ \A c \in Calls : pc[c] \in Holding <=> lifeMu = c
  /\ \A s \in Starts : pc[s] = "listen" => ~stopUsed /\ done = s
  /\ \A c \in Calls : pc[c] \in {"closePort", "setStopped", "recordStop"} => stopUsed
  /\ \A c \in Stops : pc[c] \in {"idle", "returned"} \cup Stopping

\* A channel that has not been made is neither current nor closed.
FreshInv == \A s \in Starts : pc[s] = "idle" => s \notin closed /\ s # done

\* Only a Start that is past Listen and has not returned has an open listener.
OpenInv == \A s \in Starts : s \in open => pc[s] \notin {"idle", "listen", "returned"}

\* Unless calls overlap, one Start at most is in flight, and the current channel is its own.
AloneInv ==
  Discipline # "overlapping" =>
    \A s, t \in Starts : InFlight(s) => done = s /\ (InFlight(t) => s = t)

\* When stopOnce has fired, the port is closed, or its holder is about to close it.
PortInv ==
  stopUsed => open = {} \/ \E c \in Calls : lifeMu = c /\ pc[c] = "closePort"

\* As long as the accept loop goes on, its error count is below the limit.
CountInv == \A s \in Starts : pc[s] \in Starting \cup Looping \cup {"idle"} => errors[s] < MaxAcceptErrors

-----------------------------------------------------------------------------
\* The type invariant holds: in particular no accept loop counts beyond the limit.
THEOREM TypeCorrect == Spec => [](TypeOK /\ CountInv)
<1> USE DEF Calls, Channels, Statuses, Locations, Starting, Looping, Stopping, Over
<1>1. Init => TypeOK /\ CountInv
  <2> SUFFICES ASSUME Init PROVE TypeOK /\ CountInv
    OBVIOUS
  <2>1. pc \in [Calls -> Locations] /\ seen \in [Starts -> Channels]
    BY DEF Init
  <2>2. errors \in [Starts -> 0..MaxAcceptErrors] /\ CountInv
    BY BoundAssumption DEF Init, CountInv
  <2> QED
    BY <2>1, <2>2 DEF Init, TypeOK
<1>2. TypeOK /\ CountInv /\ [Next]_vars => TypeOK' /\ CountInv'
  <2> SUFFICES ASSUME TypeOK, CountInv, [Next]_vars PROVE TypeOK' /\ CountInv'
    OBVIOUS
  <2> USE BoundAssumption DEF TypeOK, CountInv, Goto, locked, port, shown, loops
  <2>1. ASSUME NEW s \in Starts, StartLock(s) PROVE TypeOK' /\ CountInv'
    BY <2>1 DEF StartLock, Rearm, Announce
  <2>2. ASSUME NEW s \in Starts, StartStep(s) \/ Network(s) PROVE TypeOK' /\ CountInv'
    <3>1. CASE Listen(s)
      BY <3>1 DEF Listen, Publish
    <3>2. CASE ListenError(s)
      BY <3>2 DEF ListenError, UnlockOnError
    <3>3. CASE SetRunning(s)
      BY <3>3 DEF SetRunning
    <3>4. CASE RecordStart(s)
      BY <3>4 DEF RecordStart
    <3>5. CASE ReadDone(s)
      BY <3>5 DEF ReadDone
    <3>6. CASE Loop(s)
      BY <3>6 DEF Loop, Leave
    <3>7. CASE CheckDone(s)
      BY <3>7 DEF CheckDone, Leave
    <3>8. CASE ClosedAccept(s) \/ TransientError(s) \/ RateLimitHit(s)
      BY <3>8 DEF ClosedAccept, RateLimitHit, TransientError, AcceptFails
    <3>9. CASE Accept(s)
      BY <3>9 DEF Accept
    <3>10. CASE CountError(s)
      <4>1. errors' = [errors EXCEPT ![s] = errors[s] + 1] /\ pc[s] = "count"
        BY <3>10 DEF CountError, Leave
      <4>2. errors' \in [Starts -> 0..MaxAcceptErrors]
        BY <4>1
      <4>3. CASE AtLimit(errors[s] + 1)
        BY <3>10, <4>1, <4>2, <4>3 DEF CountError, Leave
      <4>4. CASE ~AtLimit(errors[s] + 1)
        <5>1. errors[s] + 1 < MaxAcceptErrors
          BY <4>1, <4>4 DEF AtLimit
        <5> QED
          BY <3>10, <4>1, <4>2, <4>4, <5>1 DEF CountError
      <4> QED
        BY <4>3, <4>4
    <3>11. CASE CloseListener(s)
      BY <3>11 DEF CloseListener
    <3>12. CASE StopStep(s)
      BY <3>12 DEF StopStep, StopAgain, StopOnce, StopListener, SetStopped, RecordStop,
                   AfterStop, ClosePort, MarkStopped, ClearUptime
    <3> QED
      BY <2>2, <3>1, <3>2, <3>3, <3>4, <3>5, <3>6, <3>7, <3>8, <3>9, <3>10, <3>11, <3>12
      DEF StartStep, Network
  <2>3. ASSUME NEW c \in Stops, CallStop(c) \/ StopStep(c) PROVE TypeOK' /\ CountInv'
    BY <2>3, CallsAssumption
    DEF CallStop, StopStep, StopAgain, StopOnce, StopListener, SetStopped, RecordStop,
        AfterStop, ClosePort, MarkStopped, ClearUptime
  <2>4. CASE Terminated \/ UNCHANGED vars
    BY <2>4 DEF Terminated, vars
  <2> QED
    BY <2>1, <2>2, <2>3, <2>4 DEF Next
<1> QED
  BY <1>1, <1>2, PTL DEF Spec

-----------------------------------------------------------------------------
\* What every step does to the done channel and to stopOnce, and that no call
\* becomes idle again.
LEMMA ChannelSteps ==
  ASSUME TypeOK, [Next]_vars
  PROVE  /\ \/ \E s \in Starts : StartLock(s)
            \/ \E c \in Calls : StopOnce(c)
            \/ UNCHANGED <<done, closed, stopUsed>>
         /\ \A c \in Calls : pc'[c] = "idle" => pc[c] = "idle"
<1> USE DEF TypeOK, Calls, Goto, locked, port, shown, loops
<1>1. ASSUME NEW s \in Starts, StartLock(s)
      PROVE  \A c \in Calls : pc'[c] = "idle" => pc[c] = "idle"
  BY <1>1 DEF StartLock
<1>2. ASSUME NEW c \in Calls, CallStop(c) \/ StopStep(c)
      PROVE  /\ StopOnce(c) \/ UNCHANGED <<done, closed, stopUsed>>
             /\ \A d \in Calls : pc'[d] = "idle" => pc[d] = "idle"
  BY <1>2 DEF CallStop, StopStep, StopAgain, StopOnce, StopListener, SetStopped, RecordStop, AfterStop
<1>3. ASSUME NEW s \in Starts, StartStep(s) \/ Network(s), ~StopStep(s)
      PROVE  /\ UNCHANGED <<done, closed, stopUsed>>
             /\ \A d \in Calls : pc'[d] = "idle" => pc[d] = "idle"
  BY <1>3 DEF StartStep, Network, Listen, ListenError, SetRunning, RecordStart, ReadDone, Loop,
              CheckDone, ClosedAccept, TransientError, RateLimitHit, AcceptFails, Accept,
              CountError, CloseListener, Leave
<1>4. CASE Terminated \/ UNCHANGED vars
  BY <1>4 DEF Terminated, vars
<1> QED
  BY <1>1, <1>2, <1>3, <1>4 DEF Next

\* tcp_client.go:57: however calls of Start and Stop overlap, close(t.done) is
\* never called on a closed channel, and never left out when stopOnce fires.
THEOREM ClosedOnceCorrect == Spec => [](ClosedOnce /\ FreshInv)
<1>1. Init => ClosedOnce /\ FreshInv
  BY CallsAssumption DEF Init, ClosedOnce, FreshInv
<1>2. TypeOK /\ ClosedOnce /\ FreshInv /\ [Next]_vars => ClosedOnce' /\ FreshInv'
  <2> SUFFICES ASSUME TypeOK, ClosedOnce, FreshInv, [Next]_vars PROVE ClosedOnce' /\ FreshInv'
    OBVIOUS
  <2>1. \A c \in Calls : pc'[c] = "idle" => pc[c] = "idle"
    BY ChannelSteps
  <2>2. ASSUME NEW s \in Starts, StartLock(s) PROVE ClosedOnce' /\ FreshInv'
    <3>1. pc[s] = "idle" /\ pc'[s] = "listen" /\ UNCHANGED closed /\ done' = s /\ ~stopUsed'
      BY <2>2 DEF StartLock, Rearm, Goto, TypeOK, Calls
    <3> QED
      BY <2>1, <3>1 DEF ClosedOnce, FreshInv, Calls
  <2>3. ASSUME NEW c \in Calls, StopOnce(c) PROVE ClosedOnce' /\ FreshInv'
    BY <2>1, <2>3 DEF StopOnce, ClosedOnce, FreshInv, Calls
  <2>4. CASE UNCHANGED <<done, closed, stopUsed>>
    BY <2>1, <2>4 DEF ClosedOnce, FreshInv, Calls
  <2> QED
    BY <2>2, <2>3, <2>4, ChannelSteps
<1> QED
  BY <1>1, <1>2, TypeCorrect, PTL DEF Spec

-----------------------------------------------------------------------------
\* lifeMu is a lock: a call is in a critical section exactly when it holds it.
THEOREM LockCorrect == Spec => []LockInv
<1> USE DEF Calls, Holding, Stopping
<1>1. Init => LockInv
  BY CallsAssumption DEF Init, LockInv
<1>2. TypeOK /\ LockInv /\ [Next]_vars => LockInv'
  <2> SUFFICES ASSUME TypeOK, LockInv, [Next]_vars PROVE LockInv'
    OBVIOUS
  <2> USE CallsAssumption DEF TypeOK, LockInv, Goto, locked, port, shown, loops
  <2>1. ASSUME NEW s \in Starts, StartLock(s) PROVE LockInv'
    BY <2>1 DEF StartLock, Rearm
  <2>2. ASSUME NEW s \in Starts, StartStep(s) \/ Network(s) PROVE LockInv'
    <3>1. CASE Listen(s) \/ ListenError(s)
      BY <3>1 DEF Listen, ListenError, UnlockOnError
    <3>2. CASE SetRunning(s) \/ RecordStart(s) \/ ReadDone(s) \/ CloseListener(s)
      BY <3>2 DEF SetRunning, RecordStart, ReadDone, CloseListener
    <3>3. CASE Loop(s) \/ CheckDone(s) \/ CountError(s)
      BY <3>3 DEF Loop, CheckDone, CountError, Leave
    <3>4. CASE ClosedAccept(s) \/ Network(s)
      BY <3>4 DEF ClosedAccept, Network, Accept, TransientError, RateLimitHit, AcceptFails
    <3>5. CASE StopStep(s)
      BY <3>5 DEF StopStep, StopAgain, StopOnce, StopListener, SetStopped, RecordStop, AfterStop
    <3> QED
      BY <2>2, <3>1, <3>2, <3>3, <3>4, <3>5 DEF StartStep
  <2>3. ASSUME NEW c \in Stops, CallStop(c) \/ StopStep(c) PROVE LockInv'
    BY <2>3 DEF CallStop, StopStep, StopAgain, StopOnce, StopListener, SetStopped, RecordStop, AfterStop
  <2>4. CASE Terminated \/ UNCHANGED vars
    BY <2>4 DEF Terminated, vars
  <2> QED
    BY <2>1, <2>2, <2>3, <2>4 DEF Next
<1> QED
  BY <1>1, <1>2, TypeCorrect, PTL DEF Spec

\* A Start call that has returned, or has not yet listened, holds no open
\* listener: every way out of Start passes by listener.Close().
THEOREM ReturnedStartsAreClosed == Spec => []OpenInv
<1> USE DEF Calls
<1>1. Init => OpenInv
  BY DEF Init, OpenInv
<1>2. TypeOK /\ OpenInv /\ [Next]_vars => OpenInv'
  <2> SUFFICES ASSUME TypeOK, OpenInv, [Next]_vars PROVE OpenInv'
    OBVIOUS
  <2> USE CallsAssumption DEF TypeOK, OpenInv, Goto, locked, port, shown, loops
  <2>1. ASSUME NEW s \in Starts, StartLock(s) PROVE OpenInv'
    BY <2>1 DEF StartLock
  <2>2. ASSUME NEW s \in Starts, StartStep(s) \/ Network(s) PROVE OpenInv'
    <3>1. CASE Listen(s) \/ ListenError(s)
      BY <3>1 DEF Listen, ListenError
    <3>2. CASE SetRunning(s) \/ RecordStart(s) \/ ReadDone(s) \/ CloseListener(s)
      BY <3>2 DEF SetRunning, RecordStart, ReadDone, CloseListener
    <3>3. CASE Loop(s) \/ CheckDone(s) \/ CountError(s)
      BY <3>3 DEF Loop, CheckDone, CountError, Leave
    <3>4. CASE ClosedAccept(s) \/ Network(s)
      BY <3>4 DEF ClosedAccept, Network, Accept, TransientError, RateLimitHit, AcceptFails
    <3>5. CASE StopStep(s)
      BY <3>5 DEF StopStep, StopAgain, StopOnce, StopListener, SetStopped, RecordStop, AfterStop, ClosePort
    <3> QED
      BY <2>2, <3>1, <3>2, <3>3, <3>4, <3>5 DEF StartStep
  <2>3. ASSUME NEW c \in Stops, CallStop(c) \/ StopStep(c) PROVE OpenInv'
    BY <2>3 DEF CallStop, StopStep, StopAgain, StopOnce, StopListener, SetStopped, RecordStop,
                AfterStop, ClosePort
  <2>4. CASE Terminated \/ UNCHANGED vars
    BY <2>4 DEF Terminated, vars
  <2> QED
    BY <2>1, <2>2, <2>3, <2>4 DEF Next
<1> QED
  BY <1>1, <1>2, TypeCorrect, PTL DEF Spec

-----------------------------------------------------------------------------
\* No call but StartLock's comes to be in flight in the place of another Start.
LEMMA InFlightSteps ==
  ASSUME TypeOK, [Next]_vars
  PROVE  \/ \E s \in Starts : StartLock(s)
         \/ UNCHANGED done /\ \A s \in Starts : InFlight(s)' => InFlight(s)
<1> USE CallsAssumption DEF TypeOK, Calls, Goto, InFlight, Over, locked, port, shown, loops
<1>1. ASSUME NEW c \in Calls, StopStep(c)
      PROVE  UNCHANGED done /\ \A s \in Starts : InFlight(s)' => InFlight(s)
  BY <1>1 DEF StopStep, StopAgain, StopOnce, StopListener, SetStopped, RecordStop
<1>2. ASSUME NEW c \in Stops, CallStop(c)
      PROVE  UNCHANGED done /\ \A s \in Starts : InFlight(s)' => InFlight(s)
  BY <1>2 DEF CallStop
<1>3. ASSUME NEW t \in Starts, StartStep(t) \/ Network(t), ~StopStep(t)
      PROVE  UNCHANGED done /\ \A s \in Starts : InFlight(s)' => InFlight(s)
  BY <1>3 DEF StartStep, Network, Listen, ListenError, SetRunning, RecordStart, ReadDone, Loop,
              CheckDone, ClosedAccept, TransientError, RateLimitHit, AcceptFails, Accept,
              CountError, CloseListener, Leave
<1>4. CASE Terminated \/ UNCHANGED vars
  BY <1>4 DEF Terminated, vars
<1> QED
  BY <1>1, <1>2, <1>3, <1>4 DEF Next

\* Callers that wait for a Start to return before they call Start again have one
\* incarnation at a time, and it is the current one.
THEOREM OneIncarnation == Spec => []AloneInv
<1>1. Init => AloneInv
  BY DEF Init, AloneInv, InFlight, Over, Calls
<1>2. TypeOK /\ AloneInv /\ [Next]_vars => AloneInv'
  <2> SUFFICES ASSUME TypeOK, AloneInv, [Next]_vars PROVE AloneInv'
    OBVIOUS
  <2>1. ASSUME NEW s \in Starts, StartLock(s) PROVE AloneInv'
    <3>1. Discipline # "overlapping" => \A t \in Starts : ~InFlight(t)
      BY <2>1 DEF StartLock, MayStart
    <3>2. done' = s /\ \A t \in Starts : t # s => (InFlight(t)' <=> InFlight(t))
      BY <2>1 DEF StartLock, Rearm, Goto, InFlight, TypeOK, Calls
    <3> QED
      BY <3>1, <3>2 DEF AloneInv
  <2>2. CASE UNCHANGED done /\ \A s \in Starts : InFlight(s)' => InFlight(s)
    BY <2>2 DEF AloneInv
  <2> QED
    BY <2>1, <2>2, InFlightSteps
<1> QED
  BY <1>1, <1>2, TypeCorrect, PTL DEF Spec

-----------------------------------------------------------------------------
\* What the listener needs of its surroundings: the port is exclusive (a local
\* address), or the callers never overlap two Starts.
OneBinding == ExclusivePort \/ Discipline # "overlapping"

PortSafe == NoOrphanListener /\ PortInv

\* A Start that is about to publish a listener finds no other one open.
LEMMA PortIsFree ==
  ASSUME OneBinding, open \subseteq Starts, OpenInv, AloneInv, NEW s \in Starts, Listen(s)
  PROVE  open = {}
<1>1. CASE ExclusivePort
  BY <1>1 DEF Listen
<1>2. CASE Discipline # "overlapping"
  <2>1. ASSUME NEW t \in Starts, t \in open PROVE FALSE
    <3>1. InFlight(t) /\ InFlight(s) /\ pc[s] = "listen"
      BY <2>1 DEF OpenInv, Listen, Goto, InFlight, Over
    <3>2. s = t
      BY <1>2, <3>1 DEF AloneInv
    <3> QED
      BY <2>1, <3>1, <3>2 DEF OpenInv
  <2> QED
    BY <2>1
<1> QED
  BY <1>1, <1>2 DEF OneBinding

\* The steps that bind or release the port, stop the tunnel or begin an incarnation.
LEMMA PortSteps ==
  ASSUME TypeOK, LockInv, [Next]_vars
  PROVE  \/ \E s \in Starts : StartLock(s) \/ Listen(s) \/ CloseListener(s)
         \/ \E c \in Calls : StopOnce(c) \/ StopListener(c)
         \/ /\ UNCHANGED <<done, closed, stopUsed, port>>
            /\ \A c \in Calls : lifeMu = c /\ pc[c] = "closePort" => lifeMu' = c /\ pc'[c] = "closePort"
<1> DEFINE Quiet == /\ UNCHANGED <<done, closed, stopUsed, port>>
                    /\ \A c \in Calls : lifeMu = c /\ pc[c] = "closePort"
                                        => lifeMu' = c /\ pc'[c] = "closePort"
<1> USE CallsAssumption DEF TypeOK, LockInv, Holding, Calls, Goto, locked, port, shown, loops
<1>1. ASSUME NEW c \in Calls, StopStep(c) PROVE StopOnce(c) \/ StopListener(c) \/ Quiet
  BY <1>1 DEF StopStep, StopAgain, SetStopped, RecordStop
<1>2. ASSUME NEW c \in Stops, CallStop(c) PROVE Quiet
  BY <1>2 DEF CallStop
<1>3. ASSUME NEW s \in Starts, StartStep(s) \/ Network(s), ~StopStep(s)
      PROVE  Listen(s) \/ CloseListener(s) \/ Quiet
  <2>1. CASE ListenError(s) \/ SetRunning(s) \/ RecordStart(s) \/ ReadDone(s)
    BY <2>1 DEF ListenError, SetRunning, RecordStart, ReadDone
  <2>2. CASE Loop(s) \/ CheckDone(s) \/ CountError(s)
    BY <2>2 DEF Loop, CheckDone, CountError, Leave
  <2>3. CASE ClosedAccept(s) \/ Network(s)
    BY <2>3 DEF ClosedAccept, Network, Accept, TransientError, RateLimitHit, AcceptFails
  <2> QED
    BY <1>3, <2>1, <2>2, <2>3 DEF StartStep
<1>4. CASE Terminated \/ UNCHANGED vars
  BY <1>4 DEF Terminated, vars
<1> QED
  BY <1>1, <1>2, <1>3, <1>4 DEF Next

\* A restart never leaks a listening port, and a Stop that has released lifeMu
\* has released the port: the strengthening is that, once stopOnce has fired, the
\* port can be open only while its closer stands at StopListener.
THEOREM PortCorrect ==
  ASSUME OneBinding
  PROVE  Spec => [](NoOrphanListener /\ StopReleasesListener)
<1>1. Init => PortSafe
  BY DEF Init, PortSafe, NoOrphanListener, PortInv
<1>2. TypeOK /\ LockInv /\ OpenInv /\ AloneInv /\ PortSafe /\ [Next]_vars => PortSafe'
  <2> SUFFICES ASSUME TypeOK, LockInv, OpenInv, AloneInv, PortSafe, [Next]_vars PROVE PortSafe'
    OBVIOUS
  <2> USE DEF PortSafe, NoOrphanListener, PortInv
  <2>1. ASSUME NEW s \in Starts, StartLock(s) PROVE PortSafe'
    BY <2>1 DEF StartLock, Rearm, port
  <2>2. ASSUME NEW s \in Starts, Listen(s) PROVE PortSafe'
    <3>1. open = {}
      BY <2>2, PortIsFree DEF TypeOK
    <3>2. ~stopUsed /\ UNCHANGED stopUsed
      BY <2>2 DEF LockInv, Listen, Goto
    <3> QED
      BY <2>2, <3>1, <3>2 DEF Listen, Publish
  <2>3. ASSUME NEW s \in Starts, CloseListener(s) PROVE PortSafe'
    BY <2>3 DEF CloseListener, locked, Goto, TypeOK, Calls
  <2>4. ASSUME NEW c \in Calls, StopOnce(c) PROVE PortSafe'
    BY <2>4 DEF StopOnce, port, Goto, TypeOK
  <2>5. ASSUME NEW c \in Calls, StopListener(c) PROVE PortSafe'
    BY <2>5 DEF StopListener, ClosePort, locked
  <2>6. CASE /\ UNCHANGED <<done, closed, stopUsed, port>>
             /\ \A c \in Calls : lifeMu = c /\ pc[c] = "closePort" => lifeMu' = c /\ pc'[c] = "closePort"
    BY <2>6 DEF port
  <2> QED
    BY <2>1, <2>2, <2>3, <2>4, <2>5, <2>6, PortSteps
<1>3. TypeOK /\ PortSafe => NoOrphanListener /\ StopReleasesListener
  BY CallsAssumption DEF TypeOK, PortSafe, PortInv, StopReleasesListener, Calls
<1> QED
  BY <1>1, <1>2, <1>3, TypeCorrect, LockCorrect, ReturnedStartsAreClosed, OneIncarnation, PTL DEF Spec

-----------------------------------------------------------------------------
\* The life cycle implements the safety part of the contract of Incarnations.
THEOREM LifecycleImplementsContract ==
  ASSUME OneBinding
  PROVE  Spec => Contract!Spec
<1> DEFINE Facts == TypeOK /\ LockInv /\ OpenInv /\ AloneInv /\ ClosedOnce /\ FreshInv /\ NoOrphanListener
<1>1. Init => Contract!Init
  BY DEF Init, Contract!Init
<1>2. Facts /\ [Next]_vars => [Contract!Next]_(Contract!vars)
  <2> SUFFICES ASSUME Facts, [Next]_vars PROVE Contract!Next \/ UNCHANGED Contract!vars
    OBVIOUS
  <2> USE DEF Contract!vars, Contract!Next
  <2>1. ASSUME NEW s \in Starts, StartLock(s) PROVE Contract!Begin(s)
    BY <2>1 DEF StartLock, Rearm, Goto, port, FreshInv, Contract!Begin
  <2>2. ASSUME NEW s \in Starts, Listen(s) PROVE Contract!Bind
    <3>1. open = {} /\ ~stopUsed /\ done = s
      BY <2>2, PortIsFree DEF TypeOK, LockInv, Listen, Goto
    <3> QED
      BY <2>2, <3>1, CallsAssumption DEF Listen, Publish, Contract!Bind
  <2>3. ASSUME NEW c \in Calls, StopOnce(c) PROVE Contract!Halt
    BY <2>3 DEF StopOnce, port, ClosedOnce, Contract!Halt
  <2>4. ASSUME NEW s \in Starts, CloseListener(s) PROVE Contract!Unbind \/ UNCHANGED Contract!vars
    BY <2>4, CallsAssumption DEF CloseListener, locked, TypeOK, NoOrphanListener, Contract!Unbind
  <2>5. ASSUME NEW c \in Calls, StopListener(c) PROVE Contract!Unbind \/ UNCHANGED Contract!vars
    BY <2>5, CallsAssumption
    DEF StopListener, ClosePort, locked, TypeOK, NoOrphanListener, Contract!Unbind
  <2>6. CASE UNCHANGED <<done, closed, stopUsed, port>>
    BY <2>6 DEF port
  <2> QED
    BY <2>1, <2>2, <2>3, <2>4, <2>5, <2>6, PortSteps
<1> QED
  BY <1>1, <1>2, TypeCorrect, LockCorrect, ReturnedStartsAreClosed, OneIncarnation,
     ClosedOnceCorrect, PortCorrect, PTL DEF Spec, Contract!Spec

-----------------------------------------------------------------------------
\* Past its startup a Start that does not overlap another watches its own channel,
\* which is closed once its deferred Stop has fired, or found that another has.
SeenInv ==
  Discipline # "overlapping" =>
    \A s \in Starts :
      /\ CapturesDone /\ pc[s] # "idle" => seen[s] = s
      /\ pc[s] \in Looping \cup Stopping \cup {"closeListener"} => seen[s] = s
      /\ pc[s] \in (Stopping \ {"stop"}) \cup {"closeListener"} => seen[s] \in closed
      /\ pc[s] = "returned" /\ outcome[s] # "listenError" => seen[s] \in closed

-----------------------------------------------------------------------------
\* done channels that are closed stay closed.
LEMMA ClosedGrows ==
  ASSUME TypeOK, [Next]_vars
  PROVE  closed \subseteq closed'
BY ChannelSteps DEF StartLock, StopOnce

\* What the calls of Stop, and those that never touch them, leave of a Start call.
LEMMA StopsKeepStarts ==
  ASSUME TypeOK, NEW c \in Stops, CallStop(c) \/ StopStep(c), NEW s \in Starts
  PROVE  UNCHANGED <<pc[s], seen[s], outcome[s]>>
BY CallsAssumption DEF TypeOK, Calls, Goto, locked, port, shown, loops, CallStop, StopStep,
   StopAgain, StopOnce, StopListener, SetStopped, RecordStop

\* A Start that served and returned leaves its done channel closed, so every
\* forwardStream that watches it is released, if Starts do not overlap.
THEOREM ReturnedMeansClosedCorrect ==
  ASSUME Discipline # "overlapping"
  PROVE  Spec => [](ReturnedMeansClosed /\ SeenInv)
<1> USE DEF Starting, Looping, Stopping, Over
<1>1. Init => SeenInv
  BY DEF Init, SeenInv, Calls
<1>2. TypeOK /\ AloneInv /\ ClosedOnce /\ SeenInv /\ [Next]_vars => SeenInv'
  <2> SUFFICES ASSUME TypeOK, AloneInv, ClosedOnce, SeenInv, [Next]_vars PROVE SeenInv'
    OBVIOUS
  <2>1. closed \subseteq closed'
    BY ClosedGrows
  <2> USE <2>1, CallsAssumption DEF TypeOK, SeenInv, Calls, Goto, locked, port, shown, loops
  <2>2. ASSUME NEW s \in Starts, StartLock(s) PROVE SeenInv'
    BY <2>2 DEF StartLock
  <2>3. ASSUME NEW s \in Starts, StartStep(s) \/ Network(s) PROVE SeenInv'
    <3>1. CASE Listen(s) \/ ListenError(s)
      BY <3>1 DEF Listen, ListenError
    <3>2. CASE SetRunning(s) \/ CloseListener(s)
      BY <3>2 DEF SetRunning, CloseListener
    <3>8. CASE RecordStart(s)
      <4>1. CapturesDone => seen[s] = s
        BY <3>8 DEF RecordStart
      <4>2. CASE CapturesDone
        BY <3>8, <4>1, <4>2 DEF RecordStart
      <4>3. CASE ~CapturesDone
        BY <3>8, <4>3 DEF RecordStart
      <4> QED
        BY <4>2, <4>3
    <3>3. CASE ReadDone(s)
      <4>1. done = s
        BY <3>3 DEF ReadDone, AloneInv, InFlight
      <4> QED
        BY <3>3, <4>1 DEF ReadDone
    <3>4. CASE Loop(s) \/ CheckDone(s) \/ CountError(s)
      BY <3>4 DEF Loop, CheckDone, CountError, Leave
    <3>5. CASE ClosedAccept(s) \/ Network(s)
      BY <3>5 DEF ClosedAccept, Network, Accept, TransientError, RateLimitHit, AcceptFails
    <3>6. CASE StopAgain(s) \/ StopOnce(s)
      <4>1. done = s /\ seen[s] = s
        BY <3>6 DEF StopAgain, StopOnce, AloneInv, InFlight
      <4>2. s \in closed'
        BY <3>6, <4>1 DEF StopAgain, StopOnce, ClosedOnce
      <4> QED
        BY <3>6, <4>1, <4>2 DEF StopAgain, StopOnce, AfterStop
    <3>7. CASE StopListener(s) \/ SetStopped(s) \/ RecordStop(s)
      BY <3>7 DEF StopListener, SetStopped, RecordStop, AfterStop
    <3> QED
      BY <2>3, <3>1, <3>2, <3>3, <3>4, <3>5, <3>6, <3>7, <3>8 DEF StartStep, StopStep
  <2>4. ASSUME NEW c \in Stops, CallStop(c) \/ StopStep(c) PROVE SeenInv'
    BY <2>4, StopsKeepStarts
  <2>5. CASE Terminated \/ UNCHANGED vars
    BY <2>5 DEF Terminated, vars
  <2> QED
    BY <2>2, <2>3, <2>4, <2>5 DEF Next
<1>3. SeenInv => ReturnedMeansClosed
  BY DEF SeenInv, ReturnedMeansClosed
<1> QED
  BY <1>1, <1>2, <1>3, TypeCorrect, OneIncarnation, ClosedOnceCorrect, PTL DEF Spec

-----------------------------------------------------------------------------
\* What orderly callers add: no Stop overlaps a startup, the port is open from Listen
\* until stopOnce fires, and nobody shows Running but a Start that goes on to serve.
OrderlyInv ==
  Discipline = "orderly" =>
    /\ \A s \in Starts : pc[s] \in Starting => ~stopUsed /\ \A c \in Stops : ~InFlight(c)
    /\ \A s \in Starts :
         pc[s] \in {"setRunning", "recordStart", "readDone"} \cup Looping /\ ~stopUsed
           => listener = s /\ s \in open
    /\ \A s \in Starts : pc[s] \in {"listen", "setRunning"} => status # "running"
    /\ \A s \in Starts : pc[s] \in {"listen", "setRunning", "recordStart"} => ~uptime
    /\ \A c \in Calls : pc[c] = "recordStop" => status # "running"
    /\ status = "running" /\ lifeMu = None =>
         ~stopUsed /\ \E s \in Starts : pc[s] \in Looping \cup {"recordStart", "readDone"}
    /\ UptimeMeansServing

\* An incarnation that nobody has stopped is the one in flight; what it needs of
\* the channel and of the other calls in each step.
LEMMA AloneFacts ==
  ASSUME Discipline = "orderly", AloneInv, ClosedOnce, NEW s \in Starts, InFlight(s)
  PROVE  /\ done = s
         /\ \A t \in Starts : InFlight(t) => t = s
         /\ stopUsed <=> s \in closed
BY DEF AloneInv, ClosedOnce

\* With orderly callers status, uptime, channel and listener are what OrderlyInv says of
\* each place of the one Start in flight.
THEOREM OrderlyInvariant ==
  ASSUME Discipline = "orderly"
  PROVE  Spec => []OrderlyInv
<1> USE DEF Starting, Looping, Stopping, Over, UptimeMeansServing
<1>1. Init => OrderlyInv
  BY DEF Init, OrderlyInv, Calls
<1> DEFINE Facts == TypeOK /\ LockInv /\ AloneInv /\ ClosedOnce /\ SeenInv
<1>2. Facts /\ OrderlyInv /\ [Next]_vars => OrderlyInv'
  <2> SUFFICES ASSUME Facts, OrderlyInv, [Next]_vars PROVE OrderlyInv'
    OBVIOUS
  <2> USE CallsAssumption
      DEF TypeOK, LockInv, Holding, OrderlyInv, Calls, InFlight, Goto, locked, port, shown, loops
  <2>1. ASSUME NEW s \in Starts, StartLock(s) PROVE OrderlyInv'
    BY <2>1 DEF StartLock, MayStart, Rearm, Announce
  <2>2. ASSUME NEW s \in Starts, StartStep(s) \/ Network(s), ~StopStep(s), ~CloseListener(s)
        PROVE  OrderlyInv'
    <3>1. /\ done = s
          /\ \A t \in Starts : InFlight(t) => t = s
          /\ stopUsed <=> s \in closed
      <4>1. InFlight(s)
        BY <2>2 DEF StartStep, Network, Listen, ListenError, SetRunning, RecordStart, ReadDone, Loop,
              CheckDone, ClosedAccept, TransientError, RateLimitHit, AcceptFails, Accept,
              CountError, Leave
      <4> QED
        BY <4>1, AloneFacts
    <3> USE <3>1
    <3>2. CASE Listen(s)
      BY <3>2 DEF Listen, Publish
    <3>3. CASE ListenError(s)
      BY <3>3 DEF ListenError, UnlockOnError
    <3>4. CASE SetRunning(s)
      BY <3>4 DEF SetRunning
    <3>5. CASE RecordStart(s)
      BY <3>5 DEF RecordStart
    <3>6. CASE ReadDone(s)
      BY <3>6 DEF ReadDone
    <3>7. CASE Loop(s) \/ CheckDone(s)
      BY <3>7 DEF Loop, CheckDone, Leave, SeenInv
    <3>8. CASE CountError(s)
      BY <3>8 DEF CountError, Leave
    <3>9. CASE ClosedAccept(s) \/ Network(s)
      BY <3>9 DEF ClosedAccept, Network, Accept, TransientError, RateLimitHit, AcceptFails
    <3> QED
      BY <2>2, <3>2, <3>3, <3>4, <3>5, <3>6, <3>7, <3>8, <3>9 DEF StartStep
  <2>3. ASSUME NEW c \in Calls, StopStep(c) PROVE OrderlyInv'
    <3>1. CASE StopAgain(c)
      BY <3>1 DEF StopAgain, AfterStop, ClosedOnce
    <3>2. CASE StopOnce(c)
      BY <3>2 DEF StopOnce, AloneInv
    <3>3. CASE StopListener(c)
      BY <3>3 DEF StopListener, ClosePort
    <3>4. CASE SetStopped(c)
      BY <3>4 DEF SetStopped, MarkStopped
    <3>5. CASE RecordStop(c)
      BY <3>5 DEF RecordStop, ClearUptime, AfterStop, ClosedOnce
    <3> QED
      BY <2>3, <3>1, <3>2, <3>3, <3>4, <3>5 DEF StopStep
  <2>4. ASSUME NEW s \in Starts, CloseListener(s) PROVE OrderlyInv'
    BY <2>4 DEF CloseListener
  <2>5. ASSUME NEW c \in Stops, CallStop(c) PROVE OrderlyInv'
    BY <2>5 DEF CallStop, MayStop
  <2>6. CASE Terminated \/ UNCHANGED vars
    BY <2>6 DEF Terminated, vars
  <2> QED
    BY <2>1, <2>2, <2>3, <2>4, <2>5, <2>6 DEF Next
<1>3. Spec => []SeenInv
  <2>1. Discipline # "overlapping"
    OBVIOUS
  <2>2. Spec => [](ReturnedMeansClosed /\ SeenInv)
    BY <2>1, ReturnedMeansClosedCorrect
  <2> QED
    BY <2>2, PTL
<1> QED
  BY <1>1, <1>2, <1>3, TypeCorrect, LockCorrect, OneIncarnation, ClosedOnceCorrect, PTL DEF Spec

\* With orderly callers Status() says running only as long as a Start serves on an open
\* listener, the one that Stop would close.
THEOREM RunningMeansServingCorrect ==
  ASSUME Discipline = "orderly"
  PROVE  Spec => []RunningMeansServing
<1>1. AloneInv /\ ClosedOnce /\ OrderlyInv => RunningMeansServing
  <2> SUFFICES ASSUME AloneInv, ClosedOnce, OrderlyInv, status = "running", lifeMu = None
               PROVE  \E s \in Starts : Serving(s)
    BY DEF RunningMeansServing
  <2>1. PICK s \in Starts : ~stopUsed /\ pc[s] \in Looping \cup {"recordStart", "readDone"}
    BY DEF OrderlyInv
  <2>2. InFlight(s) /\ done = s /\ s \notin closed /\ listener = s /\ s \in open
    BY <2>1 DEF OrderlyInv, AloneInv, ClosedOnce, InFlight, Looping, Starting, Stopping, Over
  <2> QED
    BY <2>1, <2>2 DEF Serving, Looping
<1> QED
  BY <1>1, OrderlyInvariant, OneIncarnation, ClosedOnceCorrect, PTL

\* With orderly callers the uptime gauge is on exactly from RecordStart to the Stop of
\* that incarnation.
THEOREM UptimeMeansServingCorrect ==
  ASSUME Discipline = "orderly"
  PROVE  Spec => []UptimeMeansServing
<1>1. OrderlyInv => UptimeMeansServing
  BY DEF OrderlyInv
<1> QED
  BY <1>1, OrderlyInvariant, PTL

-----------------------------------------------------------------------------
(***************************************************************************)
(* The HTTP and SOCKS proxies (module HttpProxy) have another life cycle:  *)
(* Start keeps its mutex as long as it serves.  What follows is of their   *)
(* calls, which are named by the same constants; the variables of the two  *)
(* modules that share a name are those of HttpProxy here.                  *)
(***************************************************************************)
VARIABLES kind, mu, proxySet, server, shut

Proxy == INSTANCE HttpProxy

\* mu is held by who listens, serves or shuts down; who serves does so with the server
\* of the field, which nobody has shut down; a server is set only of a proxy that is.
ProxyInv ==
  /\ kind \in {"http", "socks"} /\ proxySet \in BOOLEAN
  /\ mu \in Calls \cup {None} /\ server \in Starts \cup {None} /\ shut \subseteq Starts
  /\ pc \in [Calls -> Proxy!Locations] /\ outcome \in [Calls -> {"none", "nil", "error"}]
  /\ \A c \in Calls : pc[c] \in {"listen", "serve", "shutdown"} <=> mu = c
  /\ \A c \in Stops : pc[c] \in {"idle", "wait", "shutdown", "returned"}
  /\ \A s \in Starts :
       /\ pc[s] # "shutdown"
       /\ s \in shut \cup {server} => pc[s] \in {"serve", "returned"}
       /\ pc[s] = "serve" => server = s /\ s \notin shut
       /\ pc[s] = "listen" => server = None /\ (kind = "http" => proxySet)
  /\ kind = "http" /\ server # None => proxySet

\* The invariant survives every step.
LEMMA ProxySteps ==
  ASSUME ProxyInv, [Proxy!Next]_(Proxy!vars)
  PROVE  ProxyInv' /\ kind' = kind
<1> USE CallsAssumption DEF ProxyInv, Calls, Proxy!Locations, Proxy!Goto, Proxy!Return, Proxy!Locked, Proxy!fields, Proxy!shown
<1>1. kind' = kind
  BY DEF Proxy!Next, Proxy!vars
<1>2. ASSUME NEW s \in Starts, Proxy!StartAgain(s) \/ Proxy!Start(s) PROVE ProxyInv'
  BY <1>1, <1>2 DEF Proxy!StartAgain, Proxy!Start, Proxy!AlreadyStarted
<1>3. ASSUME NEW s \in Starts, Proxy!Listen(s) \/ Proxy!ListenError(s) PROVE ProxyInv'
  BY <1>1, <1>3 DEF Proxy!Listen, Proxy!ListenError
<1>4. ASSUME NEW s \in Starts, Proxy!ServeCloses(s) \/ Proxy!ServeFails(s) PROVE ProxyInv'
  BY <1>1, <1>4 DEF Proxy!ServeCloses, Proxy!ServeFails
<1>5. ASSUME NEW c \in Stops, Proxy!StopNothing(c) \/ Proxy!Stop(c) PROVE ProxyInv'
  BY <1>1, <1>5 DEF Proxy!StopNothing, Proxy!Stop
<1>6. ASSUME NEW c \in Stops, Proxy!ShutdownTimeout(c) \/ Proxy!ShutdownDone(c) PROVE ProxyInv'
  <2>1. CASE Proxy!ShutdownTimeout(c)
    BY <1>1, <2>1 DEF Proxy!ShutdownTimeout
  <2>2. CASE Proxy!ShutdownDone(c)
    BY <1>1, <2>2 DEF Proxy!ShutdownDone
  <2> QED
    BY <1>6, <2>1, <2>2
<1>7. ASSUME NEW c \in Calls, Proxy!Call(c) PROVE ProxyInv'
  BY <1>1, <1>7 DEF Proxy!Call
<1>8. CASE UNCHANGED Proxy!vars
  BY <1>8 DEF Proxy!vars
<1> QED
  BY <1>1, <1>2, <1>3, <1>4, <1>5, <1>6, <1>7, <1>8 DEF Proxy!Next, Proxy!StartStep, Proxy!StopStep, Proxy!Terminated

\* Of a proxy one call at a time is in Start or Stop, and one server at most serves, that
\* of the field Server (http_client.go: mu.Lock in Start and Stop).
THEOREM ProxyMutexCorrect == Proxy!Spec => []ProxyInv
<1>1. Proxy!Init => ProxyInv
  BY CallsAssumption DEF Proxy!Init, ProxyInv, Proxy!Calls, Calls, Proxy!Locations
<1> QED
  BY <1>1, ProxySteps, PTL DEF Proxy!Spec

\* A call of Start that serves goes on serving, whatever is called meanwhile: nothing
\* changes but that other calls come to wait for mu; or it ends by an error of its own.
ServesOn ==
  \A s \in Starts : pc[s] = "serve" =>
    \/ /\ pc'[s] = "serve" /\ UNCHANGED <<mu, Proxy!fields, Proxy!shown, outcome>>
       /\ \A c \in Calls : pc'[c] = pc[c] \/ (pc[c] = "idle" /\ pc'[c] = "wait")
    \/ pc'[s] = "returned" /\ outcome'[s] = "error" /\ status' = "failed"

\* The proxy whose net.Listen has failed: ProxyHttpServer is set, Server is not.
ListenFailed == kind = "http" /\ proxySet /\ server = None /\ mu = None

\* Once its net.Listen has failed, an HTTP proxy stays as it is: each later Start takes it
\* for started and each later Stop finds nothing to stop, and both return nil.
FailedListenSticks ==
  ListenFailed \/ (kind = "http" /\ \E s \in Starts : pc[s] = "listen" /\ pc'[s] = "returned") =>
    /\ ListenFailed' /\ UNCHANGED <<shut, Proxy!shown>>
    /\ ListenFailed => \A c \in Calls : outcome'[c] \in {outcome[c], "nil"}

\* What a step does while somebody holds mu and while nobody does.
LEMMA ProxyShape ==
  ASSUME ProxyInv, Proxy!Next
  PROVE  \/ \E c \in Calls : Proxy!Call(c)
         \/ UNCHANGED Proxy!vars
         \/ mu = None /\ \E c \in Calls : \/ Proxy!StartAgain(c) \/ Proxy!StopNothing(c)
                                          \/ (c \in Starts /\ Proxy!Start(c))
                                          \/ Proxy!Stop(c)
         \/ \E c \in Calls : /\ mu = c /\ pc[c] \in {"listen", "serve", "shutdown"}
                             /\ \/ Proxy!Listen(c) \/ Proxy!ListenError(c)
                                \/ (c \in Starts /\ (Proxy!ServeCloses(c) \/ Proxy!ServeFails(c)))
                                \/ Proxy!ShutdownTimeout(c) \/ Proxy!ShutdownDone(c)
<1> USE CallsAssumption DEF ProxyInv, Calls, Proxy!Goto, Proxy!Return, Proxy!Locked
<1>1. ASSUME NEW c \in Calls,
             Proxy!StartAgain(c) \/ Proxy!Start(c) \/ Proxy!StopNothing(c) \/ Proxy!Stop(c)
      PROVE  mu = None
  BY <1>1 DEF Proxy!StartAgain, Proxy!Start, Proxy!StopNothing, Proxy!Stop
<1>2. ASSUME NEW c \in Calls,
             \/ Proxy!Listen(c) \/ Proxy!ListenError(c) \/ Proxy!ServeCloses(c) \/ Proxy!ServeFails(c)
             \/ Proxy!ShutdownTimeout(c) \/ Proxy!ShutdownDone(c)
      PROVE  mu = c /\ pc[c] \in {"listen", "serve", "shutdown"}
  BY <1>2 DEF Proxy!Listen, Proxy!ListenError, Proxy!ServeCloses, Proxy!ServeFails, Proxy!ShutdownTimeout, Proxy!ShutdownDone
<1> QED
  BY <1>1, <1>2 DEF Proxy!Next, Proxy!StartStep, Proxy!StopStep, Proxy!Terminated

\* http_client.go:175-177 and socks.go: a Stop that is called while the proxy serves has no
\* effect, of either proxy and of any number of calls; the ErrServerClosed that Start
\* would return as nil never comes, since no server that serves has been shut down.
THEOREM ProxyServesOn == Proxy!Spec => [][ServesOn]_(Proxy!vars)
<1>1. ProxyInv /\ [Proxy!Next]_(Proxy!vars) => [ServesOn]_(Proxy!vars)
  <2> SUFFICES ASSUME ProxyInv, Proxy!Next, NEW s \in Starts, pc[s] = "serve"
               PROVE  \/ /\ pc'[s] = "serve" /\ UNCHANGED <<mu, Proxy!fields, Proxy!shown, outcome>>
                         /\ \A c \in Calls : pc'[c] = pc[c] \/ (pc[c] = "idle" /\ pc'[c] = "wait")
                      \/ pc'[s] = "returned" /\ outcome'[s] = "error" /\ status' = "failed"
    BY DEF ServesOn
  <2> USE CallsAssumption DEF Calls
  <2>1. mu = s /\ s # None /\ s \notin shut /\ pc \in [Calls -> Proxy!Locations]
        /\ outcome \in [Calls -> {"none", "nil", "error"}]
    BY DEF ProxyInv
  <2>2. CASE \E c \in Calls : Proxy!Call(c)
    BY <2>1, <2>2 DEF Proxy!Call, Proxy!Goto
  <2>3. CASE UNCHANGED Proxy!vars
    BY <2>3 DEF Proxy!vars
  <2>4. ASSUME Proxy!ServeFails(s)
        PROVE  pc'[s] = "returned" /\ outcome'[s] = "error" /\ status' = "failed"
    BY <2>1, <2>4 DEF Proxy!ServeFails, Proxy!Return, Proxy!Goto
  <2>5. ~Proxy!ServeCloses(s) /\ ~Proxy!Listen(s) /\ ~Proxy!ListenError(s)
        /\ ~Proxy!ShutdownTimeout(s) /\ ~Proxy!ShutdownDone(s)
    BY <2>1 DEF Proxy!ServeCloses, Proxy!Listen, Proxy!ListenError, Proxy!ShutdownTimeout, Proxy!ShutdownDone,
       Proxy!Return, Proxy!Goto
  <2> QED
    BY <2>1, <2>2, <2>3, <2>4, <2>5, ProxyShape
<1> QED
  BY <1>1, ProxyMutexCorrect, PTL DEF Proxy!Spec

\* http_client.go:152: Start sets ProxyHttpServer before net.Listen and leaves it when that
\* fails, so the tunnel can be started no more and shows the status of that startup.
THEOREM FailedListenForEver == Proxy!Spec => [][FailedListenSticks]_(Proxy!vars)
<1>1. ProxyInv /\ [Proxy!Next]_(Proxy!vars) => [FailedListenSticks]_(Proxy!vars)
  <2> SUFFICES ASSUME ProxyInv, Proxy!Next,
                      ListenFailed \/ (kind = "http" /\ \E s \in Starts : pc[s] = "listen" /\ pc'[s] = "returned")
               PROVE  /\ ListenFailed' /\ UNCHANGED <<shut, Proxy!shown>>
                      /\ ListenFailed => \A c \in Calls : outcome'[c] \in {outcome[c], "nil"}
    BY DEF FailedListenSticks
  <2> USE CallsAssumption DEF Calls, ListenFailed, Proxy!fields
  <2>1. /\ kind' = kind /\ kind = "http" /\ pc \in [Calls -> Proxy!Locations]
        /\ outcome \in [Calls -> {"none", "nil", "error"}]
    BY ProxySteps DEF ProxyInv
  <2>2. CASE ListenFailed
    <3>1. CASE \E c \in Calls : Proxy!Call(c)
      BY <2>1, <2>2, <3>1 DEF Proxy!Call
    <3>2. CASE UNCHANGED Proxy!vars
      BY <2>1, <2>2, <3>2 DEF Proxy!vars
    <3>3. CASE \E c \in Calls : Proxy!StartAgain(c) \/ Proxy!StopNothing(c)
      BY <2>1, <2>2, <3>3 DEF Proxy!StartAgain, Proxy!StopNothing, Proxy!Return
    <3>4. ASSUME NEW c \in Calls PROVE ~Proxy!Start(c) /\ ~Proxy!Stop(c)
      BY <2>1, <2>2 DEF Proxy!Start, Proxy!Stop, Proxy!AlreadyStarted
    <3>5. ASSUME NEW c \in Calls PROVE mu # c
      BY <2>2
    <3> QED
      BY <3>1, <3>2, <3>3, <3>4, <3>5, ProxyShape
  <2>3. ASSUME NEW s \in Starts, pc[s] = "listen", pc'[s] = "returned"
        PROVE  ListenFailed' /\ UNCHANGED <<shut, Proxy!shown>>
    <3>1. mu = s /\ server = None /\ proxySet /\ s # None
      BY <2>1, <2>3 DEF ProxyInv
    <3>2. ~UNCHANGED Proxy!vars /\ \A c \in Calls : ~Proxy!Call(c)
      BY <2>1, <2>3 DEF Proxy!vars, Proxy!Call, Proxy!Goto
    <3>3. ~Proxy!Listen(s) /\ ~Proxy!ServeCloses(s) /\ ~Proxy!ServeFails(s)
          /\ ~Proxy!ShutdownTimeout(s) /\ ~Proxy!ShutdownDone(s)
      BY <2>1, <2>3 DEF Proxy!Listen, Proxy!ServeCloses, Proxy!ServeFails, Proxy!ShutdownTimeout, Proxy!ShutdownDone,
         Proxy!Return, Proxy!Goto
    <3>4. Proxy!ListenError(s)
      BY <3>1, <3>2, <3>3, ProxyShape
    <3> QED
      BY <2>1, <3>1, <3>4 DEF Proxy!ListenError, Proxy!Return
  <2>4. CASE ~ListenFailed
    BY <2>3, <2>4
  <2> QED
    BY <2>2, <2>4
<1> QED
  BY <1>1, ProxyMutexCorrect, PTL DEF Proxy!Spec
=============================================================================
