-------------------------- MODULE BidirectionalProofs --------------------------
(***************************************************************************)
(* What holds of the bidirectional tunnels for any calls of Start and Stop *)
(* and any maxConsecutiveErrors.                                           *)
(***************************************************************************)
EXTENDS Bidirectional, TLAPS

StopLocations == {"idle", "stop", "closePort", "shutdown", "setStopped", "returned"}
HoldsForStop(c) == pc[c] \in {"closePort", "shutdown", "setStopped"}
Holds(c) == HoldsForStop(c) \/ (kind # "udp" /\ pc[c] = "listen")

\* The types of the variables; a call of Stop stands in Stop.
BidirTypes ==
  /\ kind \in {"http", "tcp", "udp"} /\ patient \in BOOLEAN
  /\ lifeMu \in Calls \cup {None}
  /\ done \in Starts \cup {None} /\ listener \in Starts \cup {None}
  /\ proxyServer \in Starts \cup {None} /\ proxyPort \in Starts \cup {None}
  /\ closed \subseteq Starts \cup {None} /\ stopUsed \in BOOLEAN
  /\ open \subseteq Starts /\ shut \subseteq Starts
  /\ proxy \in [Starts -> {"none", "spawned", "serving", "ending", "over"}]
  /\ server \in [Starts -> Starts \cup {None}]
  /\ proxyErrCh \in [Starts -> {"empty", "closed", "error"}]
  /\ status \in {"stopped", "starting", "running", "failed"}
  /\ pc \in [Calls -> Locations] /\ \A c \in Stops : pc[c] \in StopLocations

\* A loop that has reached the limit of errors has left.
ErrorInv ==
  /\ errors \in [Starts -> Nat]
  /\ \A s \in Starts : /\ errors[s] <= MaxErrors
                       /\ pc[s] \in {"idle"} \cup Startup \cup Looping => errors[s] < MaxErrors

\* lifeMu is held by who listens (not of UDP) and by who stops.
LockInv ==
  \A c \in Calls : (Holds(c) <=> lifeMu = c) /\ (HoldsForStop(c) => stopUsed)

BidirInv == BidirTypes /\ ErrorInv /\ LockInv

\* Of patient callers.  One Start is in flight at most, and its channel is the field
\* done; while it comes up nobody stops.
AloneInv ==
  \A s \in Starts :
    /\ InFlight(s) => done = s
    /\ pc[s] \in Startup => ~stopUsed /\ \A c \in Stops : ~InFlight(c)

\* An I2P listener that is open is that of the Start in flight and, not of UDP, in the
\* field listener; a Stop that has come by closePort has closed it.
OpenInv ==
  /\ \A s \in open : pc[s] \notin {"idle", "listen", "returned"} /\ (kind # "udp" => listener = s)
  /\ kind # "udp" /\ stopUsed /\ (\A c \in Calls : pc[c] # "closePort") => open = {}

\* The port of an HTTP proxy is held by the Start that binds it, and then by its
\* goroutine, whose server is the field's.
PortInv ==
  /\ \A s \in Starts : pc[s] \in {"idle", "listen", "proxyListen", "setServer"} => proxy[s] = "none"
  /\ ~Socks =>
       \A s \in Starts :
         /\ pc[s] = "setServer" => proxyPort = s
         /\ proxy[s] \in {"spawned", "serving"} => proxyPort = s /\ proxyServer = s
         /\ proxyPort = s => pc[s] = "setServer" \/ proxy[s] \in {"spawned", "serving"}

\* A proxy serves with the server of the field, or, of SOCKS, with one that was shut down
\* before; the server of the field is shut down when a Stop has come by shutdown, and
\* before another Start replaces it.
ShutDown == \A c \in Calls : pc[c] \notin {"closePort", "shutdown"}
ServerInv ==
  /\ \A s \in Starts :
       /\ proxy[s] = "serving" =>
            server[s] # None /\ (server[s] = proxyServer \/ (Socks /\ server[s] \in shut))
       /\ proxy[s] = "spawned" \/ pc[s] \in {"setRunning", "resolve"} \cup Looping => proxyServer # None
  /\ proxyServer # None /\ proxyServer \notin shut =>
       pc[proxyServer] \in {"setRunning", "resolve", "stop", "closePort", "shutdown"} \cup Looping
  /\ stopUsed /\ ShutDown =>
       /\ proxyServer # None => proxyServer \in shut
       /\ ~Socks => \A s \in Starts : proxy[s] # "serving"

\* A Start that nobody has stopped has its listener and its proxy, or news of its end; a
\* tunnel that shows Running is one that nobody has stopped, or is being stopped.
RunInv ==
  /\ ~stopUsed =>
       /\ \A s \in Starts :
            /\ pc[s] \in {"proxyListen", "setServer", "setRunning", "resolve", "stop"} \cup Looping => s \in open
            /\ pc[s] \in {"setRunning", "resolve"} \cup Looping => HasProxy(s) \/ proxyErrCh[s] # "empty"
       /\ status = "running" => done \in Starts /\ pc[done] \in {"resolve", "stop"} \cup Looping
  /\ stopUsed /\ lifeMu = None => status # "running"

PatientInv == patient => AloneInv /\ OpenInv /\ PortInv /\ ServerInv /\ RunInv

-----------------------------------------------------------------------------
\* The steps by what they change: the loop, which moves and counts; the startup; what a
\* Stop does; the proxy that serves and the proxy that is over.
Loops(s) ==
  \/ Resolve(s) \/ LoopStopped(s) \/ NextRound(s) \/ Accept(s) \/ RateLimitHit(s) \/ AcceptFails(s)
  \/ Dial(s) \/ DialError(s) \/ ForwardEnds(s) \/ Pause(s) \/ CheckDone(s) \/ CountError(s)
StartsUp(s) ==
  \/ StartLock(s) \/ Listen(s) \/ ListenError(s) \/ ProxyListen(s) \/ ProxyListenError(s)
  \/ SetServer(s) \/ SetRunning(s)
ProxyOver(s) == BindError(s) \/ ServeTooLate(s) \/ ServerClosed(s) \/ ServeError(s)

LEMMA KindsOfSteps ==
  ASSUME [Next]_vars
  PROVE  /\ UNCHANGED chosen
         /\ \/ UNCHANGED vars
            \/ \E s \in Starts : \/ StartsUp(s) \/ Loops(s) \/ ProxyEnded(s) \/ CloseListener(s)
                                 \/ Serve(s) \/ ProxyOver(s)
            \/ \E c \in Calls : StopStep(c) \/ (c \in Stops /\ CallStop(c))
BY DEF Next, vars, Terminated, StartStep, ProxyStep, Network, Loops, StartsUp, ProxyOver, ClosedAccept, TransientError,
   ForwardStopped, ForwardBreaks, Calls

LEMMA CallsAreCalls ==
  /\ None \notin Starts /\ None \notin Stops /\ None \notin Calls
  /\ Starts \subseteq Calls /\ Stops \subseteq Calls /\ Starts \cap Stops = {}
  /\ \A c \in Calls : c \in Stops \/ c \in Starts
BY BidirCallsAssumption DEF Calls

\* What the loop changes.
LEMMA LoopShape ==
  ASSUME BidirTypes, NEW s \in Starts, Loops(s)
  PROVE  /\ pc[s] \in {"resolve"} \cup Looping
         /\ \E to \in {"stop"} \cup Looping : pc' = [pc EXCEPT ![s] = to]
         /\ UNCHANGED <<locked, inbound, outbound>>
         /\ status' \in {status, "failed"}
BY DEF Loops, Resolve, LoopStopped, NextRound, Accept, RateLimitHit, AcceptFails, Dial, DialError, ForwardEnds, Pause,
   CheckDone, CountError, Goto, Looping, BidirTypes

\* What a proxy that is over changes.
LEMMA OverShape ==
  ASSUME BidirTypes, NEW s \in Starts, ProxyOver(s)
  PROVE  /\ proxy[s] \in {"spawned", "serving", "ending"} /\ proxy' = [proxy EXCEPT ![s] = "over"]
         /\ \E result \in {"closed", "error"} : proxyErrCh' = [proxyErrCh EXCEPT ![s] = result]
         /\ proxyPort' = IF proxyPort = s THEN None ELSE proxyPort
         /\ server' = [server EXCEPT ![s] = None]
         /\ UNCHANGED <<locked, inbound, proxyServer, shut, status, pc, errors>>
BY DEF ProxyOver, BindError, ServeTooLate, ServerClosed, ServeError, ProxyReturns

\* Every variable keeps its type, and a call of Stop stays in Stop.
LEMMA TypeSteps ==
  ASSUME BidirInv, [Next]_vars
  PROVE  BidirTypes'
<1> USE CallsAreCalls DEF BidirTypes, Goto, locked, inbound, outbound, chosen
<1>0. /\ BidirTypes /\ UNCHANGED <<kind, patient>>
      /\ Startup \cup Looping \cup Leaving \cup {"idle", "returned"} = Locations
      /\ {"listen", "proxyListen", "setServer", "setRunning", "resolve"} \subseteq Locations
      /\ {"loop", "accept", "dial", "forward"} \subseteq Locations
      /\ {"stop", "closePort", "shutdown", "setStopped", "closeListener"} \subseteq Locations
  BY KindsOfSteps DEF BidirInv, Locations, Startup, Looping, Leaving
<1>1. ASSUME NEW s \in Starts, StartsUp(s) PROVE BidirTypes'
  <2>1. CASE StartLock(s)
    BY <1>0, <2>1 DEF StartLock
  <2>2. CASE Listen(s) \/ ListenError(s)
    BY <1>0, <2>2 DEF Listen, ListenError, Unlock
  <2>3. CASE ProxyListen(s) \/ ProxyListenError(s) \/ SetRunning(s)
    BY <1>0, <2>3 DEF ProxyListen, ProxyListenError, SetRunning
  <2>4. CASE SetServer(s)
    BY <1>0, <2>4 DEF SetServer, PublishServer
  <2> QED
    BY <1>1, <2>1, <2>2, <2>3, <2>4 DEF StartsUp
<1>2. ASSUME NEW s \in Starts, Loops(s) PROVE BidirTypes'
  BY <1>0, <1>2, LoopShape
<1>3. ASSUME NEW s \in Starts, ProxyEnded(s) PROVE BidirTypes'
  BY <1>0, <1>3 DEF ProxyEnded
<1>4. ASSUME NEW s \in Starts, CloseListener(s) PROVE BidirTypes'
  BY <1>0, <1>4 DEF CloseListener
<1>5. ASSUME NEW s \in Starts, Serve(s) PROVE BidirTypes'
  BY <1>0, <1>5 DEF Serve
<1>6. ASSUME NEW s \in Starts, ProxyOver(s) PROVE BidirTypes'
  BY <1>0, <1>6, OverShape
<1>7. ASSUME NEW c \in Calls, StopStep(c) \/ (c \in Stops /\ CallStop(c)) PROVE BidirTypes'
  <2>1. AfterStop(c) \in Locations /\ (c \in Stops => AfterStop(c) \in StopLocations)
    BY <1>0 DEF AfterStop, StopLocations
  <2>2. {"idle", "stop", "closePort", "shutdown", "setStopped"} \subseteq StopLocations
    BY DEF StopLocations
  <2>3. CASE CallStop(c) \/ StopAgain(c) \/ StopOnce(c)
    <3>1. \E to \in {"stop", "closePort", AfterStop(c)} : pc' = [pc EXCEPT ![c] = to]
      BY <2>3 DEF CallStop, StopAgain, StopOnce
    <3>2. pc' \in [Calls -> Locations] /\ \A b \in Stops : pc'[b] \in StopLocations
      BY <1>0, <2>1, <2>2, <3>1
    <3>3. CASE CallStop(c) \/ StopAgain(c)
      BY <1>0, <3>2, <3>3 DEF CallStop, StopAgain
    <3>4. CASE StopOnce(c)
      BY <1>0, <3>2, <3>4 DEF StopOnce
    <3> QED
      BY <2>3, <3>3, <3>4
  <2>4. CASE StopListener(c) \/ SetStopped(c)
    BY <1>0, <2>1, <2>2, <2>4 DEF StopListener, ClosePort, SetStopped
  <2>5. CASE ShutdownProxy(c)
    BY <1>0, <2>1, <2>2, <2>5 DEF ShutdownProxy
  <2> QED
    BY <1>7, <2>3, <2>4, <2>5 DEF StopStep
<1>8. CASE UNCHANGED vars
  BY <1>0, <1>8 DEF vars
<1> QED
  BY <1>1, <1>2, <1>3, <1>4, <1>5, <1>6, <1>7, <1>8, KindsOfSteps

\* A loop leaves with the error that reaches the limit.
LEMMA ErrorSteps ==
  ASSUME BidirInv, [Next]_vars
  PROVE  ErrorInv'
<1> USE BidirBoundAssumption, CallsAreCalls DEF ErrorInv, Goto, Startup, Looping
<1>0. ErrorInv /\ pc \in [Calls -> Locations]
  BY DEF BidirInv, BidirTypes
<1>1. ASSUME NEW s \in Starts, StartsUp(s) PROVE ErrorInv'
  BY <1>0, <1>1 DEF StartsUp, StartLock, Listen, ListenError, ProxyListen, ProxyListenError, SetServer, SetRunning
<1>2. ASSUME NEW s \in Starts, Loops(s) PROVE ErrorInv'
  <2>1. CASE CountError(s)
    <3>1. /\ pc[s] = "count" /\ errors' = [errors EXCEPT ![s] = @ + 1]
          /\ \/ pc' = [pc EXCEPT ![s] = "stop"]
             \/ ~(errors[s] + 1 >= MaxErrors) /\ pc' = [pc EXCEPT ![s] = "loop"]
      BY <2>1 DEF CountError, AtLimit
    <3> QED
      BY <1>0, <3>1
  <2>2. CASE Accept(s) \/ Dial(s)
    BY <1>0, <2>2 DEF Accept, Dial
  <2>3. CASE ~CountError(s) /\ ~Accept(s) /\ ~Dial(s)
    BY <1>0, <1>2, <2>3 DEF Loops, Resolve, LoopStopped, NextRound, RateLimitHit, AcceptFails, DialError, ForwardEnds,
       Pause, CheckDone
  <2> QED
    BY <2>1, <2>2, <2>3
<1>3. ASSUME NEW s \in Starts, ProxyEnded(s) \/ CloseListener(s) \/ Serve(s) PROVE ErrorInv'
  BY <1>0, <1>3 DEF ProxyEnded, CloseListener, Serve
<1>4. ASSUME NEW s \in Starts, ProxyOver(s) PROVE ErrorInv'
  BY <1>0, <1>4, OverShape DEF BidirInv
<1>5. ASSUME NEW c \in Calls, StopStep(c) \/ (c \in Stops /\ CallStop(c)) PROVE ErrorInv'
  BY <1>0, <1>5 DEF StopStep, CallStop, StopAgain, StopOnce, StopListener, ShutdownProxy, SetStopped, AfterStop
<1>6. CASE UNCHANGED vars
  BY <1>0, <1>6 DEF vars
<1> QED
  BY <1>1, <1>2, <1>3, <1>4, <1>5, <1>6, KindsOfSteps

\* lifeMu is given back on every path.
LEMMA LockSteps ==
  ASSUME BidirInv, [Next]_vars
  PROVE  LockInv'
<1> USE CallsAreCalls DEF LockInv, Goto, Holds, HoldsForStop, locked
<1>0. LockInv /\ BidirTypes /\ pc \in [Calls -> Locations] /\ kind' = kind
  BY KindsOfSteps DEF BidirInv, BidirTypes, chosen
<1>1. ASSUME NEW s \in Starts, StartsUp(s) PROVE LockInv'
  <2>1. CASE StartLock(s)
    BY <1>0, <2>1 DEF StartLock
  <2>2. CASE Listen(s) \/ ListenError(s)
    BY <1>0, <2>2 DEF Listen, ListenError, Unlock
  <2>3. CASE ProxyListen(s) \/ ProxyListenError(s) \/ SetServer(s) \/ SetRunning(s)
    BY <1>0, <2>3 DEF ProxyListen, ProxyListenError, SetServer, SetRunning
  <2> QED
    BY <1>1, <2>1, <2>2, <2>3 DEF StartsUp
<1>2. ASSUME NEW s \in Starts, Loops(s) PROVE LockInv'
  BY <1>0, <1>2, LoopShape DEF Looping
<1>3. ASSUME NEW s \in Starts, ProxyEnded(s) \/ CloseListener(s) \/ Serve(s) PROVE LockInv'
  BY <1>0, <1>3 DEF ProxyEnded, CloseListener, Serve
<1>4. ASSUME NEW s \in Starts, ProxyOver(s) PROVE LockInv'
  BY <1>0, <1>4, OverShape
<1>5. ASSUME NEW c \in Calls, StopStep(c) \/ (c \in Stops /\ CallStop(c)) PROVE LockInv'
  <2>1. CASE CallStop(c) \/ StopAgain(c)
    BY <1>0, <2>1 DEF CallStop, StopAgain, AfterStop
  <2>2. CASE StopOnce(c)
    BY <1>0, <2>2 DEF StopOnce
  <2>3. CASE StopListener(c) \/ ShutdownProxy(c)
    BY <1>0, <2>3 DEF StopListener, ShutdownProxy
  <2>4. CASE SetStopped(c)
    BY <1>0, <2>4 DEF SetStopped, AfterStop
  <2> QED
    BY <1>5, <2>1, <2>2, <2>3, <2>4 DEF StopStep
<1>6. CASE UNCHANGED vars
  BY <1>0, <1>6 DEF vars
<1> QED
  BY <1>1, <1>2, <1>3, <1>4, <1>5, <1>6, KindsOfSteps

\* Every variable has its type, and no loop counts beyond maxConsecutiveErrors.
THEOREM BidirTypeCorrect == Spec => [](BidirTypeOK /\ BidirInv)
<1>1. Init => BidirInv
  <2> SUFFICES ASSUME Init PROVE BidirInv
    OBVIOUS
  <2>1. BidirTypes
    BY CallsAreCalls DEF Init, BidirTypes, Locations, StopLocations
  <2>2. ErrorInv
    BY CallsAreCalls, BidirBoundAssumption DEF Init, ErrorInv
  <2>3. LockInv
    BY CallsAreCalls DEF Init, LockInv, Holds, HoldsForStop
  <2> QED
    BY <2>1, <2>2, <2>3 DEF BidirInv
<1>2. BidirInv /\ [Next]_vars => BidirInv'
  BY TypeSteps, ErrorSteps, LockSteps DEF BidirInv
<1>3. BidirInv => BidirTypeOK
  <2> SUFFICES ASSUME BidirInv PROVE BidirTypeOK
    OBVIOUS
  <2>1. errors \in [Starts -> 0..MaxErrors]
    BY BidirBoundAssumption DEF BidirInv, ErrorInv
  <2> QED
    BY <2>1 DEF BidirInv, BidirTypes, BidirTypeOK
<1> QED
  BY <1>1, <1>2, <1>3, PTL DEF Spec

-----------------------------------------------------------------------------
\* The proxy goroutine has room for its one error until it has sent it, a proxy of UDP
\* that is served again included.
SendInv ==
  \A s \in Starts : /\ pc[s] \in {"idle", "listen", "proxyListen", "setServer"} => proxy[s] = "none"
                    /\ proxy[s] # "over" => Room(s)

\* make(chan error, 1) (http_bidirectional.go:146 and its siblings): of any callers, no proxy goroutine blocks on its send, although nobody receives after the loop.
THEOREM SendsNeverBlock == Spec => []SendInv
<1>1. Init => SendInv
  BY DEF Init, SendInv, Room
<1>2. BidirInv /\ SendInv /\ [Next]_vars => SendInv'
  <2> SUFFICES ASSUME BidirInv, SendInv, [Next]_vars PROVE SendInv'
    OBVIOUS
  <2> USE CallsAreCalls DEF SendInv, Room, Goto, outbound
  <2>0. /\ BidirTypes /\ pc \in [Calls -> Locations] /\ proxyErrCh \in [Starts -> {"empty", "closed", "error"}]
        /\ proxy \in [Starts -> {"none", "spawned", "serving", "ending", "over"}]
    BY DEF BidirInv, BidirTypes
  <2>1. ASSUME NEW s \in Starts, StartsUp(s) PROVE SendInv'
    BY <2>0, <2>1 DEF StartsUp, StartLock, Listen, ListenError, ProxyListen, ProxyListenError, SetServer, SetRunning
  <2>2. ASSUME NEW s \in Starts, Loops(s) PROVE SendInv'
    BY <2>0, <2>2, LoopShape DEF Looping
  <2>3. ASSUME NEW s \in Starts, ProxyEnded(s) PROVE SendInv'
    BY <2>0, <2>3 DEF ProxyEnded
  <2>4. ASSUME NEW s \in Starts, CloseListener(s) \/ Serve(s) PROVE SendInv'
    BY <2>0, <2>4 DEF CloseListener, Serve
  <2>5. ASSUME NEW s \in Starts, ProxyOver(s) PROVE SendInv'
    BY <2>0, <2>5, OverShape
  <2>6. ASSUME NEW c \in Calls, StopStep(c) \/ (c \in Stops /\ CallStop(c)) PROVE SendInv'
    <3>1. CASE ShutdownProxy(c)
      BY <2>0, <3>1 DEF ShutdownProxy
    <3>2. CASE ~ShutdownProxy(c)
      <4>1. /\ UNCHANGED <<proxy, proxyErrCh>>
            /\ pc[c] \in {"idle", "stop", "closePort", "setStopped"} /\ (pc[c] = "idle" => c \in Stops)
            /\ \E to \in Leaving \cup {"returned"} : pc' = [pc EXCEPT ![c] = to]
        BY <2>6, <3>2 DEF StopStep, StopAgain, StopOnce, StopListener, SetStopped, CallStop, AfterStop, Leaving
      <4> QED
        BY <2>0, <4>1 DEF Leaving
    <3> QED
      BY <3>1, <3>2
  <2>7. CASE UNCHANGED vars
    BY <2>0, <2>7 DEF vars
  <2> QED
    BY <2>1, <2>2, <2>3, <2>4, <2>5, <2>6, <2>7, KindsOfSteps
<1> QED
  BY <1>1, <1>2, BidirTypeCorrect, PTL DEF Spec

-----------------------------------------------------------------------------
Waiting == patient /\ AloneInv /\ OpenInv /\ PortInv /\ ServerInv /\ RunInv

\* Patient callers: one Start at a time, and no Stop while it comes up.
LEMMA AloneSteps ==
  ASSUME BidirInv, Waiting, [Next]_vars
  PROVE  AloneInv'
<1> USE CallsAreCalls DEF AloneInv, Goto, InFlight, Startup, locked
<1>0. AloneInv /\ patient /\ pc \in [Calls -> Locations] /\ BidirTypes
  BY DEF Waiting, BidirInv, BidirTypes
<1>1. ASSUME NEW s \in Starts, StartsUp(s) PROVE AloneInv'
  <2>1. CASE StartLock(s)
    <3>1. \A c \in Calls : pc[c] \in {"idle", "returned"}
      BY <1>0, <2>1 DEF StartLock, MayStart
    <3> QED
      BY <1>0, <2>1, <3>1 DEF StartLock
  <2>2. CASE ~StartLock(s)
    <3>1. /\ pc[s] \in Startup /\ UNCHANGED <<done, stopUsed>>
          /\ \E to \in Startup \cup {"returned", "stop", "loop"} : pc' = [pc EXCEPT ![s] = to]
      BY <1>1, <2>2 DEF StartsUp, Listen, ListenError, ProxyListen, ProxyListenError, SetServer, SetRunning
    <3> QED
      BY <1>0, <3>1
  <2> QED
    BY <2>1, <2>2
<1>2. ASSUME NEW s \in Starts, Loops(s) PROVE AloneInv'
  BY <1>0, <1>2, LoopShape DEF Looping
<1>3. ASSUME NEW s \in Starts, ProxyEnded(s) \/ CloseListener(s) \/ Serve(s) PROVE AloneInv'
  BY <1>0, <1>3 DEF ProxyEnded, CloseListener, Serve
<1>4. ASSUME NEW s \in Starts, ProxyOver(s) PROVE AloneInv'
  BY <1>0, <1>4, OverShape
<1>5. ASSUME NEW c \in Calls, StopStep(c) PROVE AloneInv'
  <2>1. /\ InFlight(c) /\ pc[c] \notin Startup /\ UNCHANGED done
        /\ \E to \in Leaving \cup {"returned"} : pc' = [pc EXCEPT ![c] = to]
    BY <1>5 DEF StopStep, StopAgain, StopOnce, StopListener, ShutdownProxy, SetStopped, AfterStop, Leaving
  \* Who stops is not the Start that comes up, nor beside it.
  <2>2. \A s \in Starts : pc[s] \notin Startup
    BY <1>0, <2>1
  <2> QED
    BY <1>0, <2>1, <2>2 DEF Leaving
<1>6. ASSUME NEW c \in Stops, CallStop(c) PROVE AloneInv'
  BY <1>0, <1>6 DEF CallStop, MayStop
<1>7. CASE UNCHANGED vars
  BY <1>0, <1>7 DEF vars
<1> QED
  BY <1>1, <1>2, <1>3, <1>4, <1>5, <1>6, <1>7, KindsOfSteps

\* A Stop closes the listener of the Start in flight.
LEMMA OpenSteps ==
  ASSUME BidirInv, Waiting, [Next]_vars
  PROVE  OpenInv'
<1> USE CallsAreCalls DEF OpenInv, Goto, locked, inbound
<1>0. /\ OpenInv /\ AloneInv /\ pc \in [Calls -> Locations] /\ BidirTypes /\ open \subseteq Starts /\ kind' = kind
  BY KindsOfSteps DEF Waiting, BidirInv, BidirTypes, chosen
<1>1. ASSUME NEW s \in Starts, StartsUp(s) PROVE OpenInv'
  <2>1. CASE StartLock(s)
    BY <1>0, <2>1 DEF StartLock
  <2>2. CASE Listen(s)
    <3>1. pc[s] = "listen" /\ ~stopUsed
      BY <1>0, <2>2 DEF Listen, AloneInv, Startup
    <3>2. open = {}
      BY <1>0, <3>1 DEF AloneInv, InFlight
    <3> QED
      BY <1>0, <2>2, <3>1, <3>2 DEF Listen
  <2>3. CASE ListenError(s)
    BY <1>0, <2>3 DEF ListenError, AloneInv, Startup
  <2>4. CASE ProxyListen(s) \/ ProxyListenError(s) \/ SetServer(s) \/ SetRunning(s)
    BY <1>0, <2>4 DEF ProxyListen, ProxyListenError, SetServer, SetRunning
  <2> QED
    BY <1>1, <2>1, <2>2, <2>3, <2>4 DEF StartsUp
<1>2. ASSUME NEW s \in Starts, Loops(s) PROVE OpenInv'
  BY <1>0, <1>2, LoopShape DEF Looping
<1>3. ASSUME NEW s \in Starts, ProxyEnded(s) \/ CloseListener(s) \/ Serve(s) PROVE OpenInv'
  BY <1>0, <1>3 DEF ProxyEnded, CloseListener, Serve
<1>4. ASSUME NEW s \in Starts, ProxyOver(s) PROVE OpenInv'
  BY <1>0, <1>4, OverShape
<1>5. ASSUME NEW c \in Calls, StopStep(c) \/ (c \in Stops /\ CallStop(c)) PROVE OpenInv'
  <2>1. CASE StopAgain(c) \/ CallStop(c)
    BY <1>0, <1>5, <2>1 DEF StopAgain, CallStop, AfterStop
  <2>2. CASE StopOnce(c) \/ ShutdownProxy(c)
    BY <1>0, <2>2 DEF StopOnce, ShutdownProxy
  <2>3. CASE StopListener(c)
    BY <1>0, <2>3 DEF StopListener, ClosePort
  <2>4. CASE SetStopped(c)
    BY <1>0, <2>4 DEF SetStopped, AfterStop
  <2> QED
    BY <1>5, <2>1, <2>2, <2>3, <2>4 DEF StopStep
<1>6. CASE UNCHANGED vars
  BY <1>0, <1>6 DEF vars
<1> QED
  BY <1>1, <1>2, <1>3, <1>4, <1>5, <1>6, KindsOfSteps

\* The port of an HTTP proxy passes from its Start to its goroutine.
LEMMA PortSteps ==
  ASSUME BidirInv, Waiting, [Next]_vars
  PROVE  PortInv'
<1> USE CallsAreCalls DEF PortInv, Goto, outbound, Socks
<1>0. /\ PortInv /\ pc \in [Calls -> Locations] /\ BidirTypes /\ kind' = kind
      /\ proxy \in [Starts -> {"none", "spawned", "serving", "ending", "over"}]
  BY KindsOfSteps DEF Waiting, BidirInv, BidirTypes, chosen
<1>1. ASSUME NEW s \in Starts, StartsUp(s) PROVE PortInv'
  <2>1. CASE StartLock(s) \/ Listen(s) \/ ListenError(s) \/ ProxyListenError(s) \/ SetRunning(s)
    BY <1>0, <2>1 DEF StartLock, Listen, ListenError, ProxyListenError, SetRunning
  <2>2. CASE ProxyListen(s)
    BY <1>0, <2>2 DEF ProxyListen
  <2>3. CASE SetServer(s)
    BY <1>0, <2>3 DEF SetServer, PublishServer
  <2> QED
    BY <1>1, <2>1, <2>2, <2>3 DEF StartsUp
<1>2. ASSUME NEW s \in Starts, Loops(s) PROVE PortInv'
  BY <1>0, <1>2, LoopShape DEF Looping
<1>3. ASSUME NEW s \in Starts, ProxyEnded(s) PROVE PortInv'
  BY <1>0, <1>3 DEF ProxyEnded, Respawns
<1>4. ASSUME NEW s \in Starts, CloseListener(s) \/ Serve(s) PROVE PortInv'
  BY <1>0, <1>4 DEF CloseListener, Serve
<1>5. ASSUME NEW s \in Starts, ProxyOver(s) PROVE PortInv'
  BY <1>0, <1>5, OverShape
<1>6. ASSUME NEW c \in Calls, StopStep(c) \/ (c \in Stops /\ CallStop(c)) PROVE PortInv'
  <2>1. CASE ShutdownProxy(c)
    <3>1. PICK ended \in SUBSET Starts :
            /\ \A s \in ended : proxy[s] = "serving"
            /\ proxyPort' = IF proxyPort \in ended THEN None ELSE proxyPort
            /\ proxy' = [s \in Starts |-> IF s \in ended THEN "ending" ELSE proxy[s]]
      BY <2>1 DEF ShutdownProxy
    <3>2. pc' = [pc EXCEPT ![c] = "setStopped"] /\ pc[c] = "shutdown" /\ UNCHANGED proxyServer
      BY <2>1 DEF ShutdownProxy
    <3> QED
      BY <1>0, <3>1, <3>2
  <2>2. CASE ~ShutdownProxy(c)
    <3>1. /\ UNCHANGED outbound
          /\ pc[c] \in {"idle", "stop", "closePort", "setStopped"} /\ (pc[c] = "idle" => c \in Stops)
          /\ \E to \in Leaving \cup {"returned"} : pc' = [pc EXCEPT ![c] = to]
      BY <1>6, <2>2 DEF StopStep, StopAgain, StopOnce, StopListener, SetStopped, CallStop, AfterStop, Leaving
    <3> QED
      BY <1>0, <3>1 DEF Leaving
  <2> QED
    BY <2>1, <2>2
<1>7. CASE UNCHANGED vars
  BY <1>0, <1>7 DEF vars
<1> QED
  BY <1>1, <1>2, <1>3, <1>4, <1>5, <1>6, <1>7, KindsOfSteps

\* A server is replaced only when it has been shut down, and a server that was shut
\* down serves no HTTP.
LEMMA ServerSteps ==
  ASSUME BidirInv, Waiting, [Next]_vars
  PROVE  ServerInv'
<1> USE CallsAreCalls DEF ServerInv, Goto, locked, outbound, Socks, ShutDown
<1>0. /\ ServerInv /\ pc \in [Calls -> Locations] /\ BidirTypes /\ kind' = kind
      /\ proxy \in [Starts -> {"none", "spawned", "serving", "ending", "over"}]
      /\ server \in [Starts -> Starts \cup {None}] /\ proxyServer \in Starts \cup {None}
  BY KindsOfSteps DEF Waiting, BidirInv, BidirTypes, chosen
<1>1. ASSUME NEW s \in Starts, StartsUp(s) PROVE ServerInv'
  <2>1. CASE StartLock(s)
    BY <1>0, <2>1 DEF StartLock, Looping
  <2>2. CASE Listen(s) \/ ListenError(s) \/ ProxyListen(s) \/ ProxyListenError(s)
    BY <1>0, <2>2 DEF Listen, ListenError, ProxyListen, ProxyListenError, Looping
  <2>3. CASE SetServer(s)
    <3>1. /\ pc[s] = "setServer" /\ pc' = [pc EXCEPT ![s] = "setRunning"]
          /\ proxyServer' = s /\ proxy' = [proxy EXCEPT ![s] = "spawned"] /\ UNCHANGED <<shut, server, stopUsed>>
      BY <2>3 DEF SetServer, PublishServer
    <3>2. ~stopUsed /\ done = s
      BY <3>1 DEF Waiting, AloneInv, Startup, InFlight
    <3>3. proxyServer # None => proxyServer \in shut
      <4>1. ASSUME proxyServer # None, proxyServer \notin shut PROVE FALSE
        <5>1. pc[proxyServer] \in {"setRunning", "resolve", "stop", "closePort", "shutdown"} \cup Looping
          BY <1>0, <4>1
        <5>2. proxyServer = s
          BY <1>0, <3>2, <4>1, <5>1 DEF Waiting, AloneInv, InFlight, Looping
        <5> QED
          BY <3>1, <5>1, <5>2 DEF Looping
      <4> QED
        BY <4>1
    <3>4. ASSUME NEW q \in Starts, proxy[q] = "serving" PROVE Socks /\ server[q] # None /\ server[q] \in shut
      <4>1. Socks
        BY <1>0, <3>1, <3>4 DEF Waiting, PortInv
      <4> QED
        BY <1>0, <3>3, <3>4, <4>1
    <3> QED
      BY <1>0, <3>1, <3>2, <3>4
  <2>4. CASE SetRunning(s)
    <3>1. /\ pc[s] = "setRunning" /\ \E to \in {"resolve"} \cup Looping : pc' = [pc EXCEPT ![s] = to]
          /\ UNCHANGED <<proxyServer, shut, proxy, server, stopUsed>>
      BY <2>4 DEF SetRunning, Looping
    <3> QED
      BY <1>0, <3>1 DEF Looping
  <2> QED
    BY <1>1, <2>1, <2>2, <2>3, <2>4 DEF StartsUp
<1>2. ASSUME NEW s \in Starts, Loops(s) PROVE ServerInv'
  BY <1>0, <1>2, LoopShape DEF Looping
<1>3. ASSUME NEW s \in Starts, ProxyEnded(s) PROVE ServerInv'
  <2>1. /\ pc[s] = "loop" /\ \E to \in {"loop", "stop"} : pc' = [pc EXCEPT ![s] = to]
        /\ proxy' \in {proxy, [proxy EXCEPT ![s] = "spawned"]}
        /\ UNCHANGED <<proxyServer, shut, server, stopUsed>>
    BY <1>3 DEF ProxyEnded
  <2> QED
    BY <1>0, <2>1 DEF Looping
<1>4. ASSUME NEW s \in Starts, CloseListener(s) PROVE ServerInv'
  BY <1>0, <1>4 DEF CloseListener, Looping
<1>5. ASSUME NEW s \in Starts, Serve(s) PROVE ServerInv'
  BY <1>0, <1>5 DEF Serve
<1>6. ASSUME NEW s \in Starts, ProxyOver(s) PROVE ServerInv'
  BY <1>0, <1>6, OverShape
<1>7. ASSUME NEW c \in Calls, StopStep(c) \/ (c \in Stops /\ CallStop(c)) PROVE ServerInv'
  <2>1. CASE StopAgain(c)
    <3>1. stopUsed /\ ShutDown
      BY <2>1 DEF StopAgain, BidirInv, LockInv, Holds, HoldsForStop
    <3> QED
      BY <1>0, <2>1, <3>1 DEF StopAgain, AfterStop, Looping
  <2>2. CASE StopOnce(c)
    BY <1>0, <2>2 DEF StopOnce, Looping
  <2>3. CASE StopListener(c)
    BY <1>0, <2>3 DEF StopListener, Looping
  <2>4. CASE ShutdownProxy(c)
    <3> DEFINE ended == {s \in Starts : proxy[s] = "serving" /\ server[s] = proxyServer}
    <3>1. /\ shut' = shut \cup ({proxyServer} \ {None})
          /\ proxy' = [s \in Starts |-> IF s \in ended THEN "ending" ELSE proxy[s]]
          /\ UNCHANGED <<proxyServer, server, stopUsed>>
          /\ pc' = [pc EXCEPT ![c] = "setStopped"]
      BY <2>4 DEF ShutdownProxy
    <3>2. \A s \in Starts : proxy'[s] = "serving" => proxy[s] = "serving" /\ server[s] # proxyServer
      BY <3>1
    <3>3. \A s \in Starts : proxy'[s] = "spawned" => proxy[s] = "spawned"
      BY <3>1
    <3> HIDE DEF ended
    <3> QED
      BY <1>0, <3>1, <3>2, <3>3 DEF Looping
  <2>5. CASE SetStopped(c)
    BY <1>0, <2>5 DEF SetStopped, AfterStop, Looping
  <2>6. CASE c \in Stops /\ CallStop(c)
    BY <1>0, <2>6 DEF CallStop, Looping
  <2> QED
    BY <1>7, <2>1, <2>2, <2>3, <2>4, <2>5, <2>6 DEF StopStep
<1>8. CASE UNCHANGED vars
  BY <1>0, <1>8 DEF vars
<1> QED
  BY <1>1, <1>2, <1>3, <1>4, <1>5, <1>6, <1>7, <1>8, KindsOfSteps

\* Nothing but a Stop takes the listener or the proxy away without news of it.
LEMMA RunSteps ==
  ASSUME BidirInv, Waiting, [Next]_vars
  PROVE  RunInv'
<1> USE CallsAreCalls DEF RunInv, Goto, locked, inbound, outbound, Socks, HasProxy
<1>0. /\ RunInv /\ AloneInv /\ patient /\ pc \in [Calls -> Locations] /\ BidirTypes /\ kind' = kind
      /\ proxy \in [Starts -> {"none", "spawned", "serving", "ending", "over"}]
      /\ proxyErrCh \in [Starts -> {"empty", "closed", "error"}] /\ done \in Starts \cup {None}
  BY KindsOfSteps DEF Waiting, BidirInv, BidirTypes, chosen
<1>1. ASSUME NEW s \in Starts, StartsUp(s) PROVE RunInv'
  <2>1. CASE StartLock(s)
    <3>1. \A c \in Calls : pc[c] \in {"idle", "returned"}
      BY <1>0, <2>1 DEF StartLock, MayStart, InFlight
    <3>2. /\ pc' = [pc EXCEPT ![s] = "listen"] /\ stopUsed' = FALSE /\ status' = "starting"
      BY <2>1 DEF StartLock
    <3> QED
      BY <1>0, <3>1, <3>2 DEF Looping
  <2>2. ASSUME ~StartLock(s) PROVE /\ pc[s] \in Startup /\ done = s /\ ~stopUsed /\ ~stopUsed' /\ done' = done
                                   /\ \A q \in Starts : InFlight(q) => q = s
    <3>1. pc[s] \in Startup /\ UNCHANGED <<stopUsed, done>>
      BY <1>1, <2>2 DEF StartsUp, Listen, ListenError, ProxyListen, ProxyListenError, SetServer, SetRunning, Startup
    <3> QED
      BY <1>0, <3>1 DEF AloneInv, InFlight, Startup
  <2>3. CASE Listen(s) \/ ListenError(s)
    <3>1. CASE Listen(s)
      BY <1>0, <2>2, <3>1 DEF Listen, StartLock, InFlight, Looping
    <3>2. CASE ListenError(s)
      BY <1>0, <2>2, <3>2 DEF ListenError, StartLock, InFlight, Looping
    <3> QED
      BY <2>3, <3>1, <3>2
  <2>4. CASE ProxyListen(s) \/ ProxyListenError(s)
    <3>1. /\ pc[s] = "proxyListen" /\ ~StartLock(s) /\ UNCHANGED <<status, open>>
          /\ \E to \in {"setServer", "stop"} : pc' = [pc EXCEPT ![s] = to]
      BY <2>4 DEF ProxyListen, ProxyListenError, StartLock
    <3> QED
      BY <1>0, <2>2, <3>1 DEF InFlight, Looping
  <2>5. CASE SetServer(s)
    <3>1. /\ pc[s] = "setServer" /\ ~StartLock(s) /\ UNCHANGED <<status, open, proxyPort>>
          /\ pc' = [pc EXCEPT ![s] = "setRunning"] /\ proxy' = [proxy EXCEPT ![s] = "spawned"]
      BY <2>5 DEF SetServer, StartLock
    <3>2. Socks \/ proxyPort = s
      BY <3>1 DEF Waiting, PortInv
    <3> QED
      BY <1>0, <2>2, <3>1, <3>2 DEF InFlight, Looping
  <2>6. CASE SetRunning(s)
    <3>1. /\ pc[s] = "setRunning" /\ ~StartLock(s) /\ UNCHANGED <<open, outbound>>
          /\ \E to \in {"resolve"} \cup Looping : pc' = [pc EXCEPT ![s] = to]
      BY <2>6 DEF SetRunning, StartLock, Looping
    <3> QED
      BY <1>0, <2>2, <3>1 DEF InFlight, Looping
  <2> QED
    BY <1>1, <2>1, <2>3, <2>4, <2>5, <2>6 DEF StartsUp
<1>2. ASSUME NEW s \in Starts, Loops(s) PROVE RunInv'
  BY <1>0, <1>2, LoopShape DEF Looping
<1>3. ASSUME NEW s \in Starts, ProxyEnded(s) PROVE RunInv'
  <2>1. /\ pc[s] = "loop" /\ UNCHANGED <<locked, open, proxyPort>> /\ status' \in {status, "failed"}
        /\ \A q \in Starts : q # s => proxyErrCh'[q] = proxyErrCh[q]
        /\ \/ pc' = [pc EXCEPT ![s] = "loop"] /\ proxy' = [proxy EXCEPT ![s] = "spawned"] /\ kind = "udp"
           \/ pc' = [pc EXCEPT ![s] = "stop"] /\ UNCHANGED proxy
    BY <1>0, <1>3 DEF ProxyEnded, Respawns
  <2> QED
    BY <1>0, <2>1 DEF Looping
<1>4. ASSUME NEW s \in Starts, CloseListener(s) PROVE RunInv'
  <2>1. /\ pc[s] = "closeListener" /\ pc' = [pc EXCEPT ![s] = "returned"] /\ open' = open \ {s}
        /\ UNCHANGED <<locked, outbound, status>>
    BY <1>4 DEF CloseListener
  <2>2. done = s /\ \A q \in Starts : InFlight(q) => q = s
    BY <1>0, <2>1 DEF AloneInv, InFlight
  <2> QED
    BY <1>0, <2>1, <2>2 DEF InFlight, Looping
<1>5. ASSUME NEW s \in Starts, Serve(s) PROVE RunInv'
  BY <1>0, <1>5 DEF Serve
<1>6. ASSUME NEW s \in Starts, ProxyOver(s) PROVE RunInv'
  BY <1>0, <1>6, OverShape
<1>7. ASSUME NEW c \in Calls, StopStep(c) PROVE RunInv'
  <2>1. stopUsed'
    BY <1>7 DEF StopStep, StopAgain, StopOnce, StopListener, ShutdownProxy, SetStopped, BidirInv, LockInv, HoldsForStop
  <2>2. stopUsed' /\ lifeMu' = None => status' # "running"
    <3>1. CASE StopAgain(c)
      BY <1>0, <3>1 DEF StopAgain
    <3>2. CASE StopOnce(c) \/ StopListener(c) \/ ShutdownProxy(c)
      BY <3>2 DEF StopOnce, StopListener, ShutdownProxy, BidirInv, LockInv, Holds, HoldsForStop
    <3>3. CASE SetStopped(c)
      BY <3>3 DEF SetStopped
    <3> QED
      BY <1>7, <3>1, <3>2, <3>3 DEF StopStep
  <2> QED
    BY <2>1, <2>2
<1>8. ASSUME NEW c \in Stops, CallStop(c) PROVE RunInv'
  <2>1. /\ pc' = [pc EXCEPT ![c] = "stop"] /\ UNCHANGED <<locked, inbound, outbound, status>>
        /\ \A s \in Starts : s # c
    BY <1>8 DEF CallStop
  <2> QED
    BY <1>0, <2>1
<1>9. CASE UNCHANGED vars
  BY <1>0, <1>9 DEF vars
<1> QED
  BY <1>1, <1>2, <1>3, <1>4, <1>5, <1>6, <1>7, <1>8, <1>9, KindsOfSteps

\* With patient callers, the calls, the listener, the port of the proxy, its server and
\* what is shown go together as PatientInv says.
THEOREM PatientInvariant == Spec => [](BidirInv /\ PatientInv)
<1>1. Init => PatientInv
  <2> SUFFICES ASSUME Init PROVE PatientInv
    OBVIOUS
  <2>1. /\ \A c \in Calls : pc[c] = "idle"
        /\ \A s \in Starts : pc[s] = "idle" /\ proxy[s] = "none"
        /\ ~stopUsed /\ open = {} /\ proxyPort = None /\ proxyServer = None /\ status = "stopped"
    BY CallsAreCalls DEF Init
  <2>2. AloneInv /\ OpenInv /\ RunInv
    BY <2>1 DEF AloneInv, OpenInv, RunInv, InFlight, Startup, Looping
  <2>3. PortInv /\ ServerInv
    BY <2>1, CallsAreCalls DEF PortInv, ServerInv, Looping
  <2> QED
    BY <2>2, <2>3 DEF PatientInv
<1>2. BidirInv /\ PatientInv /\ [Next]_vars => PatientInv'
  <2> SUFFICES ASSUME BidirInv, PatientInv, [Next]_vars, patient'
               PROVE  AloneInv' /\ OpenInv' /\ PortInv' /\ ServerInv' /\ RunInv'
    BY DEF PatientInv
  <2>1. Waiting
    BY KindsOfSteps DEF chosen, PatientInv, Waiting
  <2> QED
    BY <2>1, AloneSteps, OpenSteps, PortSteps, ServerSteps, RunSteps
<1> QED
  BY <1>1, <1>2, BidirTypeCorrect, PTL DEF Spec

\* With patient callers, when a Stop has released lifeMu the inbound listener is closed
\* and no HTTP proxy serves (http_, tcp_ and udp_bidirectional.go: Stop).
THEOREM StopStopsBothCorrect == Spec => []StopStopsBoth
<1>1. BidirInv /\ PatientInv => StopStopsBoth
  <2> SUFFICES ASSUME BidirInv, PatientInv, patient, stopUsed, lifeMu = None PROVE StopStopsBoth
    BY DEF StopStopsBoth
  <2>1. ShutDown /\ \A c \in Calls : pc[c] # "closePort"
    BY CallsAreCalls DEF BidirInv, LockInv, Holds, HoldsForStop, ShutDown
  <2>2. kind # "udp" => open = {}
    BY <2>1 DEF PatientInv, OpenInv
  <2>3. \A s \in Starts : proxy[s] = "serving" => Socks /\ server[s] \in shut
    BY <2>1 DEF PatientInv, ServerInv
  <2>4. ~Socks /\ proxyPort # None =>
          proxy[proxyPort] = "spawned" /\ proxyServer = proxyPort /\ proxyServer \in shut
    <3>1. ASSUME ~Socks, proxyPort # None PROVE proxy[proxyPort] = "spawned" /\ proxyServer = proxyPort
      <4>1. proxyPort \in Starts
        BY <3>1 DEF BidirInv, BidirTypes
      <4>2. pc[proxyPort] # "setServer"
        BY <4>1 DEF PatientInv, AloneInv, Startup
      <4> QED
        BY <2>3, <3>1, <4>1, <4>2 DEF PatientInv, PortInv
    <3> QED
      BY <2>1, <3>1 DEF PatientInv, ServerInv
  <2> QED
    BY <2>2, <2>3, <2>4 DEF StopStopsBoth
<1> QED
  BY <1>1, PatientInvariant, PTL

\* With patient callers, a tunnel that shows Running has both its sides, or the news that
\* one of them is gone (http_, tcp_ and udp_bidirectional.go: Start).
THEOREM RunningHasBothCorrect == Spec => []RunningHasBoth
<1>1. BidirInv /\ PatientInv => RunningHasBoth
  <2> SUFFICES ASSUME BidirInv, PatientInv, patient, status = "running", lifeMu = None PROVE RunningHasBoth
    BY DEF RunningHasBoth
  <2>1. ~stopUsed /\ done \in Starts /\ pc[done] \in {"resolve", "stop"} \cup Looping
    BY DEF PatientInv, RunInv, BidirInv, BidirTypes
  <2>2. done \in open /\ (HasProxy(done) \/ proxyErrCh[done] # "empty" \/ pc[done] = "stop")
    BY <2>1 DEF PatientInv, RunInv
  <2> QED
    BY <2>1, <2>2 DEF RunningHasBoth
<1> QED
  BY <1>1, PatientInvariant, PTL

-----------------------------------------------------------------------------
(***************************************************************************)
(* The contract of Incarnations, of each side: the I2P listener, or socket,*)
(* of the Start in flight, and the local port of the HTTP proxy.  A side   *)
(* is seen with patient callers; of other callers the contract is that of  *)
(* the done channels alone.                                                *)
(***************************************************************************)
InboundSide == IF patient /\ open # {} THEN done ELSE None
OutboundSide == IF patient /\ ~Socks THEN proxyPort ELSE None

Inbound == INSTANCE Incarnations
  WITH Ids <- Starts, current <- done, stopped <- stopUsed, ended <- closed, accepting <- InboundSide
Outbound == INSTANCE Incarnations
  WITH Ids <- Starts, current <- done, stopped <- stopUsed, ended <- closed, accepting <- OutboundSide

\* A Start that has not begun has not made its channel.
FreshInv == \A s \in Starts : pc[s] = "idle" => s \notin closed /\ s # done

\* The channel of the field done is closed when stopOnce has fired, and only then.
ClosedOnce == stopUsed <=> done \in closed

\* The channels are touched by a Start that begins and by the Stop that fires.
LEMMA ChannelSteps ==
  ASSUME BidirInv, [Next]_vars
  PROVE  /\ \A s \in Starts : pc'[s] = "idle" => pc[s] = "idle"
         /\ \/ \E s \in Starts : StartLock(s)
            \/ \E c \in Calls : StopOnce(c)
            \/ UNCHANGED <<done, closed, stopUsed>>
<1> USE CallsAreCalls DEF Goto, locked
<1>0. BidirTypes /\ pc \in [Calls -> Locations]
  BY DEF BidirInv, BidirTypes
<1>1. ASSUME NEW s \in Starts, StartsUp(s)
      PROVE  /\ \A q \in Starts : pc'[q] = "idle" => pc[q] = "idle"
             /\ StartLock(s) \/ UNCHANGED <<done, closed, stopUsed>>
  BY <1>0, <1>1 DEF StartsUp, StartLock, Listen, ListenError, ProxyListen, ProxyListenError, SetServer, SetRunning
<1>2. ASSUME NEW s \in Starts, Loops(s) \/ ProxyEnded(s) \/ CloseListener(s) \/ Serve(s) \/ ProxyOver(s)
      PROVE  /\ \A q \in Starts : pc'[q] = "idle" => pc[q] = "idle"
             /\ UNCHANGED <<done, closed, stopUsed>>
  <2>1. CASE Loops(s)
    BY <1>0, <2>1, LoopShape DEF Looping
  <2>2. CASE ProxyOver(s)
    BY <1>0, <2>2, OverShape
  <2>3. CASE ProxyEnded(s) \/ CloseListener(s) \/ Serve(s)
    BY <1>0, <2>3 DEF ProxyEnded, CloseListener, Serve
  <2> QED
    BY <1>2, <2>1, <2>2, <2>3
<1>3. ASSUME NEW c \in Calls, StopStep(c) \/ (c \in Stops /\ CallStop(c))
      PROVE  /\ \A q \in Starts : pc'[q] = "idle" => pc[q] = "idle"
             /\ StopOnce(c) \/ UNCHANGED <<done, closed, stopUsed>>
  BY <1>0, <1>3 DEF StopStep, CallStop, StopAgain, StopOnce, StopListener, ShutdownProxy, SetStopped, AfterStop
<1>4. CASE UNCHANGED vars
  BY <1>4 DEF vars
<1> QED
  BY <1>1, <1>2, <1>3, <1>4, KindsOfSteps

\* Every done channel is closed at most once, and by the Stop of its own incarnation,
\* with patient callers and others (http_bidirectional.go:236: stopOnce).
THEOREM ClosedOnceCorrect == Spec => [](FreshInv /\ ClosedOnce)
<1>1. Init => FreshInv /\ ClosedOnce
  BY CallsAreCalls DEF Init, FreshInv, ClosedOnce
<1>2. BidirInv /\ FreshInv /\ ClosedOnce /\ [Next]_vars => (FreshInv /\ ClosedOnce)'
  <2> SUFFICES ASSUME BidirInv, FreshInv, ClosedOnce, [Next]_vars PROVE FreshInv' /\ ClosedOnce'
    OBVIOUS
  <2> USE CallsAreCalls DEF FreshInv, ClosedOnce, Goto
  <2>0. pc \in [Calls -> Locations]
    BY DEF BidirInv, BidirTypes
  <2>1. CASE \E s \in Starts : StartLock(s)
    BY <2>0, <2>1 DEF StartLock
  <2>2. CASE \E c \in Calls : StopOnce(c)
    <3>1. PICK c \in Calls : StopOnce(c)
      BY <2>2
    <3>2. \A s \in Starts : pc'[s] = "idle" => pc[s] = "idle"
      BY ChannelSteps
    <3> QED
      BY <3>1, <3>2 DEF StopOnce
  <2>3. CASE UNCHANGED <<done, closed, stopUsed>>
    BY <2>3, ChannelSteps
  <2> QED
    BY <2>1, <2>2, <2>3, ChannelSteps
<1> QED
  BY <1>1, <1>2, BidirTypeCorrect, PTL DEF Spec

\* With patient callers only the Start in flight has a listener open.
LEMMA OpenIsCurrent ==
  ASSUME BidirInv, PatientInv, patient
  PROVE  \A s \in open : s \in Starts /\ done = s /\ pc[s] \notin {"idle", "listen", "returned"}
BY CallsAreCalls DEF BidirInv, BidirTypes, PatientInv, AloneInv, OpenInv, InFlight

\* A side is bound by its Start, before anybody stops it, and released by a Stop, by the
\* end of its proxy or by the return of its Start.
LEMMA InboundSteps ==
  ASSUME BidirInv, PatientInv, [Next]_vars, InboundSide' # InboundSide
  PROVE  /\ UNCHANGED <<done, closed, stopUsed>>
         /\ \/ InboundSide = None /\ InboundSide' = done /\ done # None /\ ~stopUsed
            \/ InboundSide # None /\ InboundSide' = None
<1> USE CallsAreCalls DEF InboundSide, Goto, locked, inbound
<1>0. /\ patient' = patient /\ BidirTypes /\ patient
  BY KindsOfSteps DEF chosen, BidirInv, BidirTypes
<1>a. \A s \in open : s \in Starts /\ done = s /\ pc[s] \notin {"idle", "listen", "returned"}
  BY <1>0, OpenIsCurrent
<1>1. ASSUME NEW s \in Starts, StartLock(s) PROVE InboundSide' = InboundSide
  BY <1>0, <1>1, <1>a DEF StartLock, MayStart, InFlight
<1>2. ASSUME NEW s \in Starts, Listen(s)
      PROVE  /\ InboundSide = None /\ InboundSide' = done /\ done # None /\ ~stopUsed
             /\ UNCHANGED <<done, closed, stopUsed>>
  <2>1. done = s /\ ~stopUsed
    BY <1>0, <1>2 DEF PatientInv, AloneInv, InFlight, Startup, Listen
  <2>2. open = {}
    BY <1>2, <1>a, <2>1 DEF Listen
  <2> QED
    BY <1>0, <1>2, <2>1, <2>2 DEF Listen
<1>3. ASSUME open' \subseteq open, UNCHANGED <<done, closed, stopUsed>>
      PROVE  \/ InboundSide # None /\ InboundSide' = None
             \/ InboundSide' = InboundSide
  <2>1. open # {} => done # None
    BY <1>a
  <2> QED
    BY <1>0, <1>3, <2>1
<1>4. ASSUME NEW s \in Starts, StartsUp(s) \/ Loops(s) \/ ProxyEnded(s) \/ CloseListener(s) \/ Serve(s) \/ ProxyOver(s)
      PROVE  \/ StartLock(s) \/ Listen(s)
             \/ open' \subseteq open /\ UNCHANGED <<done, closed, stopUsed>>
  <2>1. CASE StartsUp(s)
    BY <2>1 DEF StartsUp, ListenError, ProxyListen, ProxyListenError, SetServer, SetRunning
  <2>2. CASE Loops(s)
    BY <1>0, <2>2, LoopShape
  <2>3. CASE ProxyOver(s)
    BY <1>0, <2>3, OverShape
  <2>4. CASE ProxyEnded(s) \/ CloseListener(s) \/ Serve(s)
    BY <2>4 DEF ProxyEnded, CloseListener, Serve
  <2> QED
    BY <1>4, <2>1, <2>2, <2>3, <2>4
<1>5. ASSUME NEW c \in Calls, StopStep(c) \/ CallStop(c)
      PROVE  \/ UNCHANGED <<open, done>>
             \/ open' \subseteq open /\ UNCHANGED <<done, closed, stopUsed>>
  BY <1>5 DEF StopStep, CallStop, StopAgain, StopOnce, StopListener, ClosePort, ShutdownProxy, SetStopped
<1>6. UNCHANGED vars => UNCHANGED <<open, done>>
  BY DEF vars
<1>7. ~UNCHANGED <<open, done>>
  BY <1>0
<1> QED
  BY <1>1, <1>2, <1>3, <1>4, <1>5, <1>6, <1>7, KindsOfSteps

\* The same of the port of the HTTP proxy, which net.Listen binds for its Start.
LEMMA OutboundSteps ==
  ASSUME BidirInv, PatientInv, [Next]_vars, OutboundSide' # OutboundSide
  PROVE  /\ UNCHANGED <<done, closed, stopUsed>>
         /\ \/ OutboundSide = None /\ OutboundSide' = done /\ done # None /\ ~stopUsed
            \/ OutboundSide # None /\ OutboundSide' = None
<1> USE CallsAreCalls DEF OutboundSide, Socks, Goto, locked, outbound
<1>0. /\ patient' = patient /\ kind' = kind /\ BidirTypes /\ patient /\ kind \notin {"tcp", "udp"}
  BY KindsOfSteps DEF chosen, BidirInv, BidirTypes
<1>1. ASSUME NEW s \in Starts, ProxyListen(s)
      PROVE  /\ OutboundSide = None /\ OutboundSide' = done /\ done # None /\ ~stopUsed
             /\ UNCHANGED <<done, closed, stopUsed>>
  <2>1. done = s /\ ~stopUsed
    BY <1>0, <1>1 DEF PatientInv, AloneInv, InFlight, Startup, ProxyListen
  <2> QED
    BY <1>0, <1>1, <2>1 DEF ProxyListen
<1>2. ASSUME NEW s \in Starts, StartsUp(s) \/ Loops(s) \/ ProxyEnded(s) \/ CloseListener(s) \/ Serve(s)
      PROVE  ProxyListen(s) \/ UNCHANGED proxyPort
  <2>1. CASE StartsUp(s)
    BY <2>1 DEF StartsUp, StartLock, Listen, ListenError, ProxyListenError, SetServer, SetRunning
  <2>2. CASE Loops(s)
    BY <1>0, <2>2, LoopShape
  <2>3. CASE ProxyEnded(s) \/ CloseListener(s) \/ Serve(s)
    BY <1>0, <2>3 DEF ProxyEnded, CloseListener, Serve
  <2> QED
    BY <1>2, <2>1, <2>2, <2>3
<1>3. ASSUME NEW s \in Starts, ProxyOver(s)
      PROVE  proxyPort' \in {proxyPort, None} /\ UNCHANGED <<done, closed, stopUsed>>
  BY <1>0, <1>3, OverShape
<1>4. ASSUME NEW c \in Calls, StopStep(c) \/ CallStop(c)
      PROVE  \/ UNCHANGED proxyPort
             \/ proxyPort' = None /\ UNCHANGED <<done, closed, stopUsed>>
  BY <1>4 DEF StopStep, CallStop, StopAgain, StopOnce, StopListener, ShutdownProxy, SetStopped
<1>5. UNCHANGED vars => UNCHANGED proxyPort
  BY DEF vars
<1>6. ~UNCHANGED proxyPort
  BY <1>0
<1> QED
  BY <1>0, <1>1, <1>2, <1>3, <1>4, <1>5, <1>6, KindsOfSteps

\* The inbound side of a bidirectional tunnel implements the contract of the other
\* tunnels: StartLock begins an incarnation, Listen binds for it, the Stop that fires
\* ends it, and closing the listener releases it.
THEOREM InboundRefinesContract == Spec => Inbound!Spec
<1> DEFINE Facts == BidirInv /\ PatientInv /\ FreshInv /\ ClosedOnce
<1>1. Init => Inbound!Init
  BY DEF Init, Inbound!Init, InboundSide
<1>2. Facts /\ [Next]_vars => [Inbound!Next]_(Inbound!vars)
  <2> SUFFICES ASSUME Facts, [Next]_vars PROVE Inbound!Next \/ UNCHANGED Inbound!vars
    OBVIOUS
  <2> USE DEF Inbound!Next, Inbound!vars
  <2>1. CASE InboundSide' # InboundSide
    BY <2>1, InboundSteps DEF Inbound!Bind, Inbound!Unbind
  <2>2. ASSUME InboundSide' = InboundSide, NEW s \in Starts, StartLock(s) PROVE Inbound!Begin(s)
    BY <2>2 DEF StartLock, Goto, FreshInv, Inbound!Begin
  <2>3. ASSUME InboundSide' = InboundSide, NEW c \in Calls, StopOnce(c) PROVE Inbound!Halt
    BY <2>3 DEF StopOnce, ClosedOnce, Inbound!Halt
  <2>4. CASE InboundSide' = InboundSide /\ UNCHANGED <<done, closed, stopUsed>>
    BY <2>4
  <2> QED
    BY <2>1, <2>2, <2>3, <2>4, ChannelSteps
<1> QED
  BY <1>1, <1>2, BidirTypeCorrect, PatientInvariant, ClosedOnceCorrect, PTL DEF Spec, Inbound!Spec

\* The HTTP proxy's side implements it too: ProxyListen binds, the Shutdown of the
\* proxy or its end releases.  So neither side is bound anew for a tunnel that was
\* stopped, and what a Start binds on both sides belongs to its own incarnation.
THEOREM OutboundRefinesContract == Spec => Outbound!Spec
<1> DEFINE Facts == BidirInv /\ PatientInv /\ FreshInv /\ ClosedOnce
<1>1. Init => Outbound!Init
  BY DEF Init, Outbound!Init, OutboundSide
<1>2. Facts /\ [Next]_vars => [Outbound!Next]_(Outbound!vars)
  <2> SUFFICES ASSUME Facts, [Next]_vars PROVE Outbound!Next \/ UNCHANGED Outbound!vars
    OBVIOUS
  <2> USE DEF Outbound!Next, Outbound!vars
  <2>1. CASE OutboundSide' # OutboundSide
    BY <2>1, OutboundSteps DEF Outbound!Bind, Outbound!Unbind
  <2>2. ASSUME OutboundSide' = OutboundSide, NEW s \in Starts, StartLock(s) PROVE Outbound!Begin(s)
    BY <2>2 DEF StartLock, Goto, FreshInv, Outbound!Begin
  <2>3. ASSUME OutboundSide' = OutboundSide, NEW c \in Calls, StopOnce(c) PROVE Outbound!Halt
    BY <2>3 DEF StopOnce, ClosedOnce, Outbound!Halt
  <2>4. CASE OutboundSide' = OutboundSide /\ UNCHANGED <<done, closed, stopUsed>>
    BY <2>4
  <2> QED
    BY <2>1, <2>2, <2>3, <2>4, ChannelSteps
<1> QED
  BY <1>1, <1>2, BidirTypeCorrect, PatientInvariant, ClosedOnceCorrect, PTL DEF Spec, Outbound!Spec
=============================================================================
