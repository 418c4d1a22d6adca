------------------------------ MODULE HttpProxy -------------------------------
(***************************************************************************)
(* The life cycle of the HTTP proxy tunnel (lib/http/client) and of the    *)
(* SOCKS proxy tunnel (lib/socks/client).  Start and Stop both run under   *)
(* mu from their first line to their last, and Start's last line is        *)
(* Server.Serve or Server.ListenAndServe.  Calls are named as in           *)
(* TunnelLifecycle.                                                        *)
(***************************************************************************)
EXTENDS Naturals

CONSTANTS
  Starts,   \* the calls of Start that may be made
  Stops,    \* the calls of Stop that may be made, others than Starts
  None      \* no call, in neither set

VARIABLES
  kind,      \* which proxy this is: "http" or "socks"
  mu,        \* the call that holds mu, or None
  proxySet,  \* h.ProxyHttpServer is not nil (HTTP)
  server,    \* the field Server, named by the Start call that made it, or None
  shut,      \* the servers that have been shut down
  status,    \* I2PTunnelStatus
  uptime,    \* Metrics.startedAt is not zero
  pc,        \* where each call stands
  outcome    \* what each call returns

fields == <<proxySet, server, shut>>
shown == <<status, uptime>>
vars == <<kind, mu, fields, shown, pc, outcome>>

Calls == Starts \cup Stops
Locations == {"idle", "wait", "listen", "serve", "shutdown", "returned"}

Goto(c, from, to) == pc[c] = from /\ pc' = [pc EXCEPT ![c] = to]

\* The call returns `result', and its deferred Unlock frees mu.
Return(c, from, result) ==
  /\ Goto(c, from, "returned")
  /\ outcome' = [outcome EXCEPT ![c] = result]
  /\ mu' = None

Init ==
  /\ kind \in {"http", "socks"}
  /\ mu = None
  /\ proxySet = FALSE
  /\ server = None
  /\ shut = {}
  /\ status = "stopped"
  /\ uptime = FALSE
  /\ pc = [c \in Calls |-> "idle"]
  /\ outcome = [c \in Calls |-> "none"]

Call(c) == Goto(c, "idle", "wait") /\ UNCHANGED <<mu, fields, shown, outcome>>

\* Every call begins with mu.Lock().
Locked(c) == pc[c] = "wait" /\ mu = None

-----------------------------------------------------------------------------
\* h.ProxyHttpServer != nil, s.Server != nil
AlreadyStarted == IF kind = "http" THEN proxySet ELSE server # None

StartAgain(s) ==
  /\ Locked(s)
  /\ AlreadyStarted
  /\ Return(s, "wait", "nil")
  /\ UNCHANGED <<fields, shown>>

Start(s) ==
  /\ Locked(s)
  /\ ~AlreadyStarted
  /\ Goto(s, "wait", "listen")
  /\ mu' = s
  /\ \/ kind = "http" /\ proxySet' = TRUE /\ status' = "starting"
     \/ kind = "socks" /\ UNCHANGED <<proxySet, status>>
  /\ UNCHANGED <<server, shut, uptime, outcome>>

\* net.Listen fails: the proxy stays set, the server nil, the status starting.
\* NewClassicServer, which binds nothing, fails: nothing has changed.
ListenError(s) ==
  /\ Return(s, "listen", "error")
  /\ UNCHANGED <<fields, shown>>

\* The SOCKS server is set and shown as running before ListenAndServe binds its port.
Listen(s) ==
  /\ Goto(s, "listen", "serve")
  /\ server' = s
  /\ status' = "running"
  /\ uptime' = TRUE
  /\ UNCHANGED <<mu, proxySet, shut, outcome>>

\* The server was shut down: Serve returns ErrServerClosed, Start nil.
ServeCloses(s) ==
  /\ s \in shut
  /\ Return(s, "serve", "nil")
  /\ UNCHANGED <<fields, shown>>

\* Serve fails on its listener, or the SOCKS server cannot bind its port.
ServeFails(s) ==
  /\ s \notin shut
  /\ Return(s, "serve", "error")
  /\ status' = "failed"
  /\ UNCHANGED <<fields, uptime>>

-----------------------------------------------------------------------------
\* Nothing to stop: Server is nil.
StopNothing(c) ==
  /\ Locked(c)
  /\ server = None
  /\ Return(c, "wait", "nil")
  /\ UNCHANGED <<fields, shown>>

\* close(done) under stopOnce, then Server.Shutdown, that of HTTP with a timeout.
Stop(c) ==
  /\ Locked(c)
  /\ server # None
  /\ Goto(c, "wait", "shutdown")
  /\ mu' = c
  /\ status' = "stopping"
  /\ shut' = shut \cup {server}
  /\ UNCHANGED <<proxySet, server, uptime, outcome>>

\* Shutdown exceeds its deadline or fails: Stop returns the error, the server stays set.
ShutdownTimeout(c) ==
  /\ Return(c, "shutdown", "error")
  /\ UNCHANGED <<fields, shown>>

ShutdownDone(c) ==
  /\ Return(c, "shutdown", "nil")
  /\ server' = None
  /\ proxySet' = FALSE
  /\ status' = "stopped"
  /\ uptime' = FALSE
  /\ UNCHANGED shut

-----------------------------------------------------------------------------
StartStep(s) == StartAgain(s) \/ Start(s) \/ Listen(s) \/ ListenError(s) \/ ServeCloses(s)
StopStep(c) == StopNothing(c) \/ Stop(c) \/ ShutdownTimeout(c) \/ ShutdownDone(c)

Terminated == (\A c \in Calls : pc[c] = "returned") /\ UNCHANGED vars

Next ==
  /\ \/ \E s \in Starts : Call(s) \/ StartStep(s) \/ ServeFails(s)
     \/ \E c \in Stops : Call(c) \/ StopStep(c)
     \/ Terminated
  /\ UNCHANGED kind

Spec == Init /\ [][Next]_vars

\* Goroutines run unless they wait for mu or serve; a mutex does not starve a
\* waiter for ever, so taking it is strongly fair.
FairSpec ==
  /\ Spec
  /\ \A s \in Starts : SF_vars(StartStep(s) /\ UNCHANGED kind)
  /\ \A c \in Stops : SF_vars(StopStep(c) /\ UNCHANGED kind)

-----------------------------------------------------------------------------
\* http_client.go:175-177 "Uses a bounded timeout context to prevent indefinite
\* blocking": every call of Stop returns.
StopReturns == \A c \in Stops : pc[c] = "wait" ~> pc[c] = "returned"
=============================================================================
