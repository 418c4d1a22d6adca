----------------------------- MODULE Bidirectional -----------------------------
(***************************************************************************)
(* The bidirectional tunnels (lib/http, lib/tcp and lib/udp/bidirectional):*)
(* the loop of an I2P listener in the goroutine of Start, and a proxy on a *)
(* local port in a goroutine of its own, which reports its end over an     *)
(* error channel.  The proxy is an HTTP proxy, whose port Start binds, or  *)
(* a SOCKS5 server of the library txthinking/socks5, whose port is bound   *)
(* by its own goroutine.  TCP and HTTP accept connections and are over     *)
(* when their proxy is; UDP forwards datagrams and restarts its proxy.     *)
(* The proxy is started after lifeMu is released.  A Start call names its  *)
(* done channel, its listener, its proxy server, its proxy goroutine and   *)
(* its error channel.  The back-off of UDP is in UdpTunnel, the uptime of  *)
(* all in TunnelLifecycle.                                                 *)
(***************************************************************************)
EXTENDS Naturals

CONSTANTS
  Starts,      \* the calls of Start that may be made
  Stops,       \* the calls of Stop that may be made (besides the deferred ones)
  None,        \* no call, no server; the done channel of the constructor
  MaxErrors    \* maxConsecutiveErrors

ASSUME BidirCallsAssumption == Starts \cap Stops = {} /\ None \notin Starts \cup Stops

ASSUME BidirBoundAssumption == MaxErrors \in Nat \ {0}

VARIABLES
  kind,        \* which tunnel this is: "http", "tcp" or "udp"
  patient,     \* the callers wait for startups to end and for Starts to return
  lifeMu,      \* the call that holds lifeMu, or None
  done,        \* the field done
  closed,      \* the done channels that are closed
  stopUsed,    \* stopOnce has fired
  listener,    \* the field listener (TCP and HTTP)
  open,        \* the I2P listeners that are open
  proxyServer, \* the field httpServer or socksServer
  shut,        \* the servers that have been shut down
  proxyPort,   \* the Start whose proxy listener is bound, or None
  proxy,       \* the proxy goroutine of each Start
  server,      \* the server each proxy goroutine serves with, or None
  proxyErrCh,  \* the content of each error channel: "empty", "closed" or "error"
  status,      \* I2PTunnelStatus
  pc,          \* where each call stands
  errors       \* consecutiveErrors of each loop

locked == <<lifeMu, done, closed, stopUsed>>
inbound == <<listener, open>>
outbound == <<proxyServer, shut, proxyPort, proxy, server, proxyErrCh>>
chosen == <<kind, patient>>
vars == <<chosen, locked, inbound, outbound, status, pc, errors>>

Calls == Starts \cup Stops
Startup == {"listen", "proxyListen", "setServer", "setRunning", "resolve"}
Looping == {"loop", "accept", "dial", "failed", "count", "forward", "pause"}
Leaving == {"stop", "closePort", "shutdown", "setStopped", "closeListener"}
Locations == {"idle", "returned"} \cup Startup \cup Looping \cup Leaving

InFlight(c) == pc[c] \notin {"idle", "returned"}
Goto(c, from, to) == pc[c] = from /\ pc' = [pc EXCEPT ![c] = to]

\* The proxy is a SOCKS5 server.
Socks == kind \in {"tcp", "udp"}

Init ==
  /\ kind \in {"http", "tcp", "udp"}
  /\ patient \in BOOLEAN
  /\ lifeMu = None /\ done = None /\ closed = {} /\ stopUsed = FALSE
  /\ listener = None /\ open = {}
  /\ proxyServer = None /\ shut = {} /\ proxyPort = None
  /\ proxy = [s \in Starts |-> "none"]
  /\ server = [s \in Starts |-> None]
  /\ proxyErrCh = [s \in Starts |-> "empty"]
  /\ status = "stopped"
  /\ pc = [c \in Calls |-> "idle"]
  /\ errors = [s \in Starts |-> 0]

-----------------------------------------------------------------------------
(***************************************************************************)
(* The callers.  The web controller starts a tunnel that is not running,   *)
(* and restarts one by Stop and go Start(); patient callers, who wait for  *)
(* startups, the proxy's included, are those of a program that runs one    *)
(* tunnel and ends by a signal.                                            *)
(***************************************************************************)
MayStart ==
  IF patient THEN \A c \in Calls : ~InFlight(c)
             ELSE done \in closed \/ \A s \in Starts : ~InFlight(s)

MayStop == patient => \A s \in Starts : pc[s] \notin Startup /\ proxy[s] # "spawned"

-----------------------------------------------------------------------------
\* Slip: the server is kept in a local variable only.
PublishServerSlip(s) == UNCHANGED proxyServer
\* h.httpServer = &http.Server{...}; t.socksServer = socksServer
PublishServer(s) == proxyServer' = s

\* Slip: proxyErrCh has no room, and nobody receives from it any more.
RoomSlip(s) == proxyErrCh[s] = "empty" /\ pc[s] = "loop"
\* make(chan error, 1): the one send of the proxy goroutine does not block.
Room(s) == proxyErrCh[s] = "empty"

\* Slip: a SOCKS proxy is spawned anew although the tunnel is being stopped.
RespawnsSlip(s) == kind = "udp"
\* handleSOCKSError of UDP: select on done, otherwise serve again.
Respawns(s) == kind = "udp" /\ s \notin closed

\* listener.Close()
ClosePort == open' = open \ {listener}

\* Slip: one error too late.
AtLimitSlip(n) == n > MaxErrors
AtLimit(n) == n >= MaxErrors

-----------------------------------------------------------------------------
StartLock(s) ==
  /\ MayStart
  /\ lifeMu = None
  /\ Goto(s, "idle", "listen")
  /\ lifeMu' = IF kind = "udp" THEN None ELSE s
  /\ done' = s
  /\ stopUsed' = FALSE
  /\ status' = "starting"
  /\ UNCHANGED <<closed, inbound, outbound, errors>>

\* lifeMu.Unlock() after ListenStream; UDP has released lifeMu before ListenPacket.
Unlock == lifeMu' = IF kind = "udp" THEN lifeMu ELSE None

\* Garlic.ListenStream, ListenPacket; from here on its Close and Stop are deferred.
Listen(s) ==
  /\ Goto(s, "listen", "proxyListen")
  /\ Unlock
  /\ listener' = IF kind = "udp" THEN None ELSE s
  /\ open' = open \cup {s}
  /\ UNCHANGED <<done, closed, stopUsed, outbound, status, errors>>

ListenError(s) ==
  /\ Goto(s, "listen", "returned")
  /\ Unlock
  /\ UNCHANGED <<done, closed, stopUsed, inbound, outbound, status, errors>>

\* startHTTPProxy: net.Listen on the local port, which only one can bind.
\* startSOCKS5Proxy: NewClassicServer, which binds nothing.
ProxyListen(s) ==
  /\ Goto(s, "proxyListen", "setServer")
  /\ \/ Socks /\ UNCHANGED proxyPort
     \/ ~Socks /\ proxyPort = None /\ proxyPort' = s
  /\ UNCHANGED <<locked, inbound, proxyServer, shut, proxy, server, proxyErrCh, status, errors>>

\* Slip: the error is dropped.
ProxyListenErrorSlip(s) ==
  /\ Goto(s, "proxyListen", "setRunning")
  /\ UNCHANGED <<locked, inbound, outbound, status, errors>>
\* Start returns it; the deferred calls clean up.
ProxyListenError(s) ==
  /\ Goto(s, "proxyListen", "stop")
  /\ UNCHANGED <<locked, inbound, outbound, status, errors>>

\* The server is published without lifeMu, and the proxy goroutine begins.
SetServer(s) ==
  /\ Goto(s, "setServer", "setRunning")
  /\ PublishServer(s)
  /\ proxy' = [proxy EXCEPT ![s] = "spawned"]
  /\ UNCHANGED <<locked, inbound, shut, proxyPort, server, proxyErrCh, status, errors>>

SetRunning(s) ==
  /\ Goto(s, "setRunning", IF kind = "udp" THEN "resolve" ELSE "loop")
  /\ status' = "running"
  /\ UNCHANGED <<locked, inbound, outbound, errors>>

\* UDP resolves its target only now that it shows Running; an error ends Start.
Resolve(s) ==
  /\ Goto(s, "resolve", "loop") \/ Goto(s, "resolve", "stop")
  /\ UNCHANGED <<locked, inbound, outbound, status, errors>>

-----------------------------------------------------------------------------
(***************************************************************************)
(* The loop.  TCP and HTTP read the field done again in every round; the   *)
(* read and the test of the channel are one step, as a channel that has    *)
(* been replaced is never closed after it.  UDP has captured its channel.  *)
(***************************************************************************)
StopSeen(s) == (IF kind = "udp" THEN s ELSE done) \in closed

\* case <-done
LoopStopped(s) ==
  /\ StopSeen(s)
  /\ Goto(s, "loop", "stop")
  /\ UNCHANGED <<locked, inbound, outbound, status, errors>>

\* case err := <-proxyErrCh.  TCP and HTTP: Start returns the error, that of a
\* proxy that was shut down included, and records any other.  UDP: serve again.
ProxyEnded(s) ==
  /\ proxyErrCh[s] # "empty"
  /\ proxyErrCh' = [proxyErrCh EXCEPT ![s] = "empty"]
  /\ \/ Respawns(s) /\ Goto(s, "loop", "loop") /\ proxy' = [proxy EXCEPT ![s] = "spawned"]
     \/ ~Respawns(s) /\ Goto(s, "loop", "stop") /\ UNCHANGED proxy
  /\ status' = IF kind # "udp" /\ proxyErrCh[s] = "error" THEN "failed" ELSE status
  /\ UNCHANGED <<locked, inbound, proxyServer, shut, proxyPort, server, errors>>

\* default: accept a connection, or dial the target of the datagrams.
NextRound(s) ==
  /\ ~StopSeen(s)
  /\ proxyErrCh[s] = "empty"
  /\ Goto(s, "loop", IF kind = "udp" THEN "dial" ELSE "accept")
  /\ UNCHANGED <<locked, inbound, outbound, status, errors>>

Accept(s) ==
  /\ s \in open
  /\ Goto(s, "accept", "loop")
  /\ errors' = [errors EXCEPT ![s] = 0]
  /\ UNCHANGED <<locked, inbound, outbound, status>>

\* A rate limit, which counts as no error.
RateLimitHit(s) ==
  /\ Goto(s, "accept", "loop")
  /\ UNCHANGED <<locked, inbound, outbound, status, errors>>

AcceptFails(s) ==
  /\ Goto(s, "accept", "failed")
  /\ UNCHANGED <<locked, inbound, outbound, status, errors>>

ClosedAccept(s) == s \notin open /\ AcceptFails(s)
TransientError(s) == s \in open /\ AcceptFails(s)

\* net.DialUDP.
Dial(s) ==
  /\ Goto(s, "dial", "forward")
  /\ errors' = [errors EXCEPT ![s] = 0]
  /\ UNCHANGED <<locked, inbound, outbound, status>>

DialError(s) ==
  /\ Goto(s, "dial", "failed")
  /\ UNCHANGED <<locked, inbound, outbound, status, errors>>

\* packet.Forward returns, with or without an error, which is dropped.
ForwardEnds(s) ==
  /\ Goto(s, "forward", "pause")
  /\ UNCHANGED <<locked, inbound, outbound, status, errors>>

\* ShutdownSignal, or by itself: idle, or its session is gone.
ForwardStopped(s) == StopSeen(s) /\ ForwardEnds(s)
ForwardBreaks(s) == ~StopSeen(s) /\ ForwardEnds(s)

\* select on done and a timer of 100 ms.
Pause(s) ==
  /\ \/ StopSeen(s) /\ Goto(s, "pause", "stop")
     \/ ~StopSeen(s) /\ Goto(s, "pause", "loop")
  /\ UNCHANGED <<locked, inbound, outbound, status, errors>>

\* HandleAcceptError, handleDialError.
CheckDone(s) ==
  /\ \/ StopSeen(s) /\ Goto(s, "failed", "stop")
     \/ ~StopSeen(s) /\ Goto(s, "failed", "count")
  /\ UNCHANGED <<locked, inbound, outbound, status, errors>>

CountError(s) ==
  /\ errors' = [errors EXCEPT ![s] = @ + 1]
  /\ \/ AtLimit(errors[s] + 1) /\ status' = "failed" /\ Goto(s, "count", "stop")
     \/ ~AtLimit(errors[s] + 1) /\ UNCHANGED status /\ Goto(s, "count", "loop")
  /\ UNCHANGED <<locked, inbound, outbound>>

\* Start returns; consecutiveErrors, a local variable, is gone.
CloseListener(s) ==
  /\ Goto(s, "closeListener", "returned")
  /\ open' = open \ {s}
  /\ errors' = [errors EXCEPT ![s] = 0]
  /\ UNCHANGED <<locked, listener, outbound, status>>

-----------------------------------------------------------------------------
(***************************************************************************)
(* The proxy goroutine: proxyErrCh <- h.httpServer.Serve(listener), or     *)
(* socksErrCh <- t.socksServer.ListenAndServe(...), where the field is     *)
(* read when the goroutine runs.  Serve on an http.Server that has been    *)
(* shut down closes the listener and returns ErrServerClosed; whether a    *)
(* SOCKS server that was shut down before it served serves is the          *)
(* library's matter, so it may or may not.  What ListenAndServe returns    *)
(* after a Shutdown is left open too.                                      *)
(***************************************************************************)
\* The goroutine ends: its listener is closed and its error is sent.
ProxyReturns(s, result) ==
  /\ Room(s)
  /\ proxy' = [proxy EXCEPT ![s] = "over"]
  /\ proxyErrCh' = [proxyErrCh EXCEPT ![s] = result]
  /\ proxyPort' = IF proxyPort = s THEN None ELSE proxyPort
  /\ server' = [server EXCEPT ![s] = None]
  /\ UNCHANGED <<locked, inbound, proxyServer, shut, status, pc, errors>>

\* A SOCKS server binds the port that the HTTP proxy has from Start.
Serve(s) ==
  /\ proxy[s] = "spawned"
  /\ \/ Socks /\ proxyPort = None /\ proxyPort' = s
     \/ ~Socks /\ proxyServer \notin shut /\ UNCHANGED proxyPort
  /\ proxy' = [proxy EXCEPT ![s] = "serving"]
  /\ server' = [server EXCEPT ![s] = proxyServer]
  /\ UNCHANGED <<locked, inbound, proxyServer, shut, proxyErrCh, status, pc, errors>>

\* Another proxy holds the port.
BindError(s) ==
  /\ Socks
  /\ proxyPort # None
  /\ proxy[s] = "spawned"
  /\ ProxyReturns(s, "error")

ServeTooLate(s) ==
  /\ proxy[s] = "spawned"
  /\ proxyServer \in shut
  /\ ProxyReturns(s, "closed")

ServerClosed(s) ==
  /\ proxy[s] = "ending"
  /\ ProxyReturns(s, "closed") \/ (Socks /\ ProxyReturns(s, "error"))

\* The proxy fails on its listener.
ServeError(s) ==
  /\ proxy[s] = "serving"
  /\ ProxyReturns(s, "error")

-----------------------------------------------------------------------------
CallStop(c) ==
  /\ MayStop
  /\ Goto(c, "idle", "stop")
  /\ UNCHANGED <<locked, inbound, outbound, status, errors>>

AfterStop(c) == IF c \in Starts THEN "closeListener" ELSE "returned"

StopAgain(c) ==
  /\ lifeMu = None
  /\ stopUsed
  /\ Goto(c, "stop", AfterStop(c))
  /\ UNCHANGED <<locked, inbound, outbound, status, errors>>

StopOnce(c) ==
  /\ lifeMu = None
  /\ ~stopUsed
  /\ Goto(c, "stop", "closePort")
  /\ lifeMu' = c
  /\ stopUsed' = TRUE
  /\ closed' = closed \cup {done}
  /\ UNCHANGED <<done, inbound, outbound, status, errors>>

StopListener(c) ==
  /\ Goto(c, "closePort", "shutdown")
  /\ ClosePort
  /\ UNCHANGED <<locked, listener, outbound, status, errors>>

\* Shutdown closes the listeners its server serves on, and the proxy ends; HTTP
\* waits for the connections at most 30 seconds.  Its error is dropped.
ShutdownProxy(c) ==
  LET ended == {s \in Starts : proxy[s] = "serving" /\ server[s] = proxyServer}
  IN  /\ Goto(c, "shutdown", "setStopped")
      /\ shut' = shut \cup ({proxyServer} \ {None})
      /\ proxyPort' = IF proxyPort \in ended THEN None ELSE proxyPort
      /\ proxy' = [s \in Starts |-> IF s \in ended THEN "ending" ELSE proxy[s]]
      /\ UNCHANGED <<locked, inbound, proxyServer, server, proxyErrCh, status, errors>>

SetStopped(c) ==
  /\ Goto(c, "setStopped", AfterStop(c))
  /\ status' = "stopped"
  /\ lifeMu' = None
  /\ UNCHANGED <<done, closed, stopUsed, inbound, outbound, errors>>

-----------------------------------------------------------------------------
StopStep(c) ==
  \/ StopAgain(c) \/ StopOnce(c) \/ StopListener(c) \/ ShutdownProxy(c)
  \/ SetStopped(c)

StartStep(s) ==
  \/ Listen(s) \/ ListenError(s) \/ ProxyListen(s) \/ ProxyListenError(s) \/ SetServer(s)
  \/ SetRunning(s) \/ Resolve(s) \/ LoopStopped(s) \/ ProxyEnded(s) \/ NextRound(s)
  \/ ClosedAccept(s) \/ Dial(s) \/ DialError(s) \/ ForwardStopped(s) \/ Pause(s)
  \/ CheckDone(s) \/ CountError(s) \/ StopStep(s) \/ CloseListener(s)

ProxyStep(s) == Serve(s) \/ BindError(s) \/ ServeTooLate(s) \/ ServerClosed(s)

Network(s) ==
  Accept(s) \/ RateLimitHit(s) \/ TransientError(s) \/ ForwardBreaks(s) \/ ServeError(s)

\* Every call has returned; a proxy may still be serving.
Terminated == (\A c \in Calls : pc[c] = "returned") /\ UNCHANGED vars

Next ==
  /\ \/ \E s \in Starts : StartLock(s) \/ StartStep(s) \/ ProxyStep(s) \/ Network(s)
     \/ \E c \in Stops : CallStop(c) \/ StopStep(c)
     \/ Terminated
  /\ UNCHANGED chosen

Spec == Init /\ [][Next]_vars

\* Goroutines that are not blocked run; the network and the callers owe nothing.
FairSpec ==
  /\ Spec
  /\ \A s \in Starts : /\ WF_vars(StartStep(s) /\ UNCHANGED chosen)
                        /\ WF_vars(ProxyStep(s) /\ UNCHANGED chosen)
  /\ \A c \in Stops : WF_vars(StopStep(c) /\ UNCHANGED chosen)

-----------------------------------------------------------------------------
\* Every variable has its type.
BidirTypeOK ==
  /\ kind \in {"http", "tcp", "udp"} /\ patient \in BOOLEAN
  /\ lifeMu \in Calls \cup {None}
  /\ {done, listener, proxyServer, proxyPort} \subseteq Starts \cup {None}
  /\ closed \subseteq Starts \cup {None}
  /\ stopUsed \in BOOLEAN
  /\ open \subseteq Starts /\ shut \subseteq Starts
  /\ proxy \in [Starts -> {"none", "spawned", "serving", "ending", "over"}]
  /\ server \in [Starts -> Starts \cup {None}]
  /\ proxyErrCh \in [Starts -> {"empty", "closed", "error"}]
  /\ status \in {"stopped", "starting", "running", "failed"}
  /\ pc \in [Calls -> Locations]
  /\ errors \in [Starts -> 0..MaxErrors]

\* http_bidirectional.go:236, tcp_bidirectional.go:209, udp_bidirectional.go:254, with
\* patient callers: when a Stop has released lifeMu, the inbound listener is closed
\* (UDP leaves it to Start), and no proxy serves but a SOCKS proxy whose goroutine
\* came after the Shutdown of its server; what else holds the port of an HTTP proxy
\* is a goroutine whose Serve will find its server shut down.
StopStopsBoth ==
  patient /\ stopUsed /\ lifeMu = None =>
    /\ kind # "udp" => open = {}
    /\ \A s \in Starts : proxy[s] = "serving" => Socks /\ server[s] \in shut
    /\ ~Socks /\ proxyPort # None =>
         proxy[proxyPort] = "spawned" /\ proxyServer = proxyPort /\ proxyServer \in shut

\* The proxy of s is there, or comes: it holds its port, or will find it.
HasProxy(s) ==
  proxy[s] \in {"spawned", "serving"} /\ (proxyPort = s \/ (Socks /\ proxy[s] = "spawned"))

\* With patient callers a tunnel that shows Running listens on I2P, and either has
\* its proxy or has the news of its end waiting in the error channel.
RunningHasBoth ==
  patient /\ status = "running" /\ lifeMu = None =>
    \E s \in Starts :
      /\ done = s /\ s \in open
      /\ pc[s] \in Looping \cup {"resolve", "stop"}
      /\ HasProxy(s) \/ proxyErrCh[s] # "empty" \/ pc[s] = "stop"

-----------------------------------------------------------------------------
\* A proxy that has been shut down comes to an end, although its Start may have
\* left the loop and receives no more; an HTTP proxy also if it was not yet serving.
ShutProxyEnds ==
  \A s \in Starts :
    (\/ proxy[s] = "ending"
     \/ ~Socks /\ s \in shut /\ proxy[s] # "none") ~> proxy[s] = "over"

\* Stop ends every Start, unless another Start comes in: a UDP tunnel by the channel
\* it has captured, the others, when their field done has been replaced meanwhile,
\* by the errors of their closed listener.
StopEndsStarts == stopUsed ~> ~stopUsed \/ \A s \in Starts : ~InFlight(s)
=============================================================================
