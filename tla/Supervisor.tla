------------------------------ MODULE Supervisor ------------------------------
(***************************************************************************)
(* Tunnel.Run and Tunnel.Reload of lib/embedding/embedding.go, which every *)
(* program under cmd/ but the web program ends in (cmd/shared/runner.go):  *)
(* one goroutine selects on signals and on the errors of the tunnels it    *)
(* has started, each in a goroutine of its own.                            *)
(*                                                                         *)
(* A tunnel is what Incarnations says of it, with the status that          *)
(* LoadConfig looks at.  A Start reads t.tunnel when its goroutine runs,   *)
(* holds lifeMu from Begin to Bind, and defers a Stop.  A Stop is one step *)
(* here: its parts are told apart by what TunnelLifecycle models only.     *)
(***************************************************************************)
EXTENDS Naturals

CONSTANTS
  MaxStarts,  \* Start is called at most so often, so SIGHUP is sent less often
  Files,      \* what the configuration file may hold, other than Broken
  Broken,     \* what cannot be parsed
  First,      \* what the file holds when the program starts
  Port,       \* the port a file names
  Kind,       \* the type of tunnel a file names
  None        \* no goroutine, no signal, no error

ASSUME StartsAssumption ==
  MaxStarts \in Nat \ {0} /\ None \notin Nat \cup {"SIGHUP", "SIGTERM", "nil", "error"}
ASSUME FilesAssumption == First \in Files /\ Broken \notin Files

VARIABLES
  patient,    \* signals are sent only to a program whose tunnel is up
  wrapped,    \* the Tunnel was made by Wrap: configPath is empty
  sigCh, errCh,  \* the buffered channels of Run
  run,        \* where Run stands
  parsed,     \* the configuration LoadConfig has read
  tunnel,     \* t.tunnel, the tunnels being numbered as they are made
  launched,   \* how many goroutines call Start
  conf, status, current, stopUsed, listener, lifeMu,  \* of each tunnel
  ended,      \* the incarnations whose done channel is closed
  open,       \* the incarnations whose listener is open
  at, of, bound, result  \* of each Start: where it stands, its tunnel, what it is bound as, what it returns

fixed == <<patient, wrapped>>
channels == <<sigCh, errCh>>
runner == <<run, parsed, tunnel, launched>>
tunnels == <<conf, status, current, stopUsed, listener, lifeMu>>
starts == <<at, of, bound, result>>
vars == <<fixed, channels, runner, tunnels, ended, open, starts>>

Starts == 1..MaxStarts
Tunnels == 1..MaxStarts
Hup == "SIGHUP"
Term == "SIGTERM"

\* Where a Start stands before it is up, and when it is about to leave.
ComingUp == {"launched", "called", "begun", "bound"}
Locations == ComingUp \cup {"idle", "serving", "failing", "leaving", "closing", "send", "over"}

Goto(s, from, to) == at[s] = from /\ at' = [at EXCEPT ![s] = to]
Step(from, to) == run = from /\ run' = to

\* FromConfigFile or Wrap, and the first go func() of Run.
Init ==
  /\ patient \in BOOLEAN /\ wrapped \in BOOLEAN
  /\ sigCh = None /\ errCh = None
  /\ run = "select"
  /\ parsed = First
  /\ tunnel = 1
  /\ launched = 1
  /\ conf = [t \in Tunnels |-> First]
  /\ status = [t \in Tunnels |-> "stopped"]
  /\ current = [t \in Tunnels |-> None]
  /\ stopUsed = [t \in Tunnels |-> FALSE]
  /\ listener = [t \in Tunnels |-> None]
  /\ lifeMu = [t \in Tunnels |-> None]
  /\ ended = {} /\ open = {}
  /\ at = [s \in Starts |-> IF s = 1 THEN "launched" ELSE "idle"]
  /\ of = [s \in Starts |-> 1]
  /\ bound = [s \in Starts |-> First]
  /\ result = [s \in Starts |-> None]

-----------------------------------------------------------------------------
\* Slip: the listener is left open.
CloseListenerSlip(t) == open
\* t.listener.Close()
CloseListener(t) == open \ {listener[t]}

\* Stop of a tunnel: once per incarnation, under lifeMu.
StopTunnel(t) ==
  /\ lifeMu[t] = None
  /\ \/ stopUsed[t] /\ UNCHANGED <<stopUsed, ended, open, status>>
     \/ /\ ~stopUsed[t]
        /\ stopUsed' = [stopUsed EXCEPT ![t] = TRUE]
        /\ ended' = ended \cup {current[t]}
        /\ open' = CloseListener(t)
        /\ status' = [status EXCEPT ![t] = "stopped"]
  /\ UNCHANGED <<conf, current, listener, lifeMu>>

-----------------------------------------------------------------------------
(***************************************************************************)
(* go func() { errCh <- t.tunnel.Start() }()                               *)
(***************************************************************************)
\* t.tunnel is read when the goroutine runs.
ReadTunnel(s) ==
  /\ Goto(s, "launched", "called")
  /\ of' = [of EXCEPT ![s] = tunnel]
  /\ UNCHANGED <<channels, runner, tunnels, ended, open, bound, result>>

Begin(s) ==
  /\ Goto(s, "called", "begun")
  /\ lifeMu[of[s]] = None
  /\ lifeMu' = [lifeMu EXCEPT ![of[s]] = s]
  /\ current' = [current EXCEPT ![of[s]] = s]
  /\ stopUsed' = [stopUsed EXCEPT ![of[s]] = FALSE]
  /\ status' = [status EXCEPT ![of[s]] = "starting"]
  /\ UNCHANGED <<channels, runner, conf, listener, ended, open, of, bound, result>>

\* net.Listen, unless another tunnel of the program has the port.
Bind(s) ==
  /\ Goto(s, "begun", "bound")
  /\ \A o \in open : Port[bound[o]] # Port[conf[of[s]]]
  /\ bound' = [bound EXCEPT ![s] = conf[of[s]]]
  /\ open' = open \cup {s}
  /\ listener' = [listener EXCEPT ![of[s]] = s]
  /\ lifeMu' = [lifeMu EXCEPT ![of[s]] = None]
  /\ UNCHANGED <<channels, runner, conf, status, current, stopUsed, ended, of, result>>

\* Slip: the error path keeps the lock.
UnlockOnErrorSlip(t) == UNCHANGED lifeMu
\* t.lifeMu.Unlock() on the error path of Start
UnlockOnError(t) == lifeMu' = [lifeMu EXCEPT ![t] = None]

\* The port is taken, by another tunnel or another program.
BindError(s) ==
  /\ Goto(s, "begun", "send")
  /\ result' = [result EXCEPT ![s] = "error"]
  /\ UnlockOnError(of[s])
  /\ UNCHANGED <<channels, runner, conf, status, current, stopUsed, listener, ended, open, of, bound>>

SetRunning(s) ==
  /\ Goto(s, "bound", "serving")
  /\ status' = [status EXCEPT ![of[s]] = "running"]
  /\ UNCHANGED <<channels, runner, conf, current, stopUsed, listener, lifeMu, ended, open, of, bound, result>>

\* The accept loop finds its done channel closed.
LoopStopped(s) ==
  /\ s \in ended
  /\ Goto(s, "serving", "leaving")
  /\ result' = [result EXCEPT ![s] = "nil"]
  /\ UNCHANGED <<channels, runner, tunnels, ended, open, of, bound>>

\* The accept loop finds its done channel open after one error too many.
LoopFails(s) ==
  /\ s \notin ended
  /\ Goto(s, "serving", "failing")
  /\ UNCHANGED <<channels, runner, tunnels, ended, open, of, bound, result>>

SetFailed(s) ==
  /\ Goto(s, "failing", "leaving")
  /\ status' = [status EXCEPT ![of[s]] = "failed"]
  /\ result' = [result EXCEPT ![s] = "error"]
  /\ UNCHANGED <<channels, runner, conf, current, stopUsed, listener, lifeMu, ended, open, of, bound>>

DeferredStop(s) ==
  /\ Goto(s, "leaving", "closing")
  /\ StopTunnel(of[s])
  /\ UNCHANGED <<channels, runner, of, bound, result>>

DeferredClose(s) ==
  /\ Goto(s, "closing", "send")
  /\ open' = open \ {s}
  /\ bound' = [bound EXCEPT ![s] = First]
  /\ UNCHANGED <<channels, runner, tunnels, ended, of, result>>

\* errCh has room for one.  What is sent, and by whom, is forgotten.
Send(s) ==
  /\ errCh = None
  /\ Goto(s, "send", "over")
  /\ errCh' = result[s]
  /\ result' = [result EXCEPT ![s] = None]
  /\ of' = [of EXCEPT ![s] = 1]
  /\ UNCHANGED <<sigCh, runner, tunnels, ended, open, bound>>

\* An accept loop may go on without errors; one whose listener is closed cannot.
StartStep(s) ==
  \/ ReadTunnel(s) \/ Begin(s) \/ Bind(s) \/ BindError(s) \/ SetRunning(s)
  \/ LoopStopped(s) \/ (s \notin open /\ LoopFails(s)) \/ SetFailed(s)
  \/ DeferredStop(s) \/ DeferredClose(s) \/ Send(s)

-----------------------------------------------------------------------------
(***************************************************************************)
(* Run and Reload.                                                         *)
(***************************************************************************)
Receive(sig, to) == sigCh = sig /\ sigCh' = None /\ Step("select", to) /\ UNCHANGED errCh

ReceiveHup ==
  /\ Receive(Hup, "stop")
  /\ UNCHANGED <<parsed, tunnel, launched, tunnels, ended, open, starts>>

ReceiveTerm ==
  /\ Receive(Term, "term")
  /\ UNCHANGED <<parsed, tunnel, launched, tunnels, ended, open, starts>>

TermStop ==
  /\ Step("term", "returnedNil")
  /\ StopTunnel(tunnel)
  /\ UNCHANGED <<channels, parsed, tunnel, launched, starts>>

\* A nil error is that of a Start that was stopped: Run goes on.
ReceiveNil ==
  /\ run = "select"
  /\ errCh = "nil" /\ errCh' = None
  /\ UNCHANGED <<sigCh, runner, tunnels, ended, open, starts>>

ReceiveError ==
  /\ Step("select", "returnedError")
  /\ errCh = "error" /\ errCh' = None
  /\ UNCHANGED <<sigCh, parsed, tunnel, launched, tunnels, ended, open, starts>>

\* Slip: the tunnel is not stopped before the new configuration is loaded.
StopFirstSlip(t) == UNCHANGED <<tunnels, ended, open>>
\* t.tunnel.Stop()
StopFirst(t) == StopTunnel(t)

ReloadStop ==
  /\ Step("stop", IF wrapped THEN "launch" ELSE "load")
  /\ StopFirst(tunnel)
  /\ UNCHANGED <<channels, parsed, tunnel, launched, starts>>

\* What LoadConfig of the tunnel accepts: see CheckTunnelStopped and newConfig.Type.
TunnelStopped(t) == status[t] \notin {"running", "starting"}
Reloadable(t, file) == file # Broken /\ Kind[file] = Kind[conf[t]]

\* LoadConfig reads the file, which the user may have edited.
LoadConfig(file) ==
  /\ TunnelStopped(tunnel) /\ Reloadable(tunnel, file)
  /\ Step("load", "install")
  /\ parsed' = file
  /\ UNCHANGED <<channels, tunnel, launched, tunnels, ended, open, starts>>

LoadConfigError(file) ==
  /\ ~(TunnelStopped(tunnel) /\ Reloadable(tunnel, file))
  /\ Step("load", "fresh")
  /\ UNCHANGED <<channels, parsed, tunnel, launched, tunnels, ended, open, starts>>

\* LoadConfig installs it, if the tunnel is still stopped.
Install ==
  /\ lifeMu[tunnel] = None
  /\ \/ /\ TunnelStopped(tunnel)
        /\ Step("install", "launch")
        /\ conf' = [conf EXCEPT ![tunnel] = parsed]
     \/ ~TunnelStopped(tunnel) /\ Step("install", "fresh") /\ UNCHANGED conf
  /\ parsed' = First
  /\ UNCHANGED <<channels, tunnel, launched,
                 status, current, stopUsed, listener, lifeMu, ended, open, starts>>

\* loader.Load makes another tunnel; a Reload that fails leaves the old one stopped.
LoadFresh(file) ==
  /\ file # Broken
  /\ Step("fresh", "launch")
  /\ tunnel' = tunnel + 1
  /\ conf' = [conf EXCEPT ![tunnel + 1] = file]
  /\ UNCHANGED <<channels, parsed, launched,
                 status, current, stopUsed, listener, lifeMu, ended, open, starts>>

LoadFreshError(file) ==
  /\ file = Broken
  /\ Step("fresh", "select")
  /\ UNCHANGED <<channels, parsed, tunnel, launched, tunnels, ended, open, starts>>

LaunchStart ==
  /\ Step("launch", "select")
  /\ launched' = launched + 1
  /\ at' = [at EXCEPT ![launched + 1] = "launched"]
  /\ UNCHANGED <<channels, parsed, tunnel, tunnels, ended, open, of, bound, result>>

RunStep ==
  \/ ReceiveHup \/ ReceiveTerm \/ TermStop \/ ReceiveNil \/ ReceiveError
  \/ ReloadStop \/ Install \/ LaunchStart
  \/ \E file \in Files \cup {Broken} :
       LoadConfig(file) \/ LoadConfigError(file) \/ LoadFresh(file) \/ LoadFreshError(file)

-----------------------------------------------------------------------------
\* Signals are for a program that runs.  The bound: a SIGHUP is sent only if Start
\* may be called once more, twice in all when the user does not wait.
StartBound == IF patient \/ MaxStarts = 1 THEN MaxStarts ELSE 2
Returned == {"returnedNil", "returnedError"}
Reloading == {"stop", "load", "install", "fresh", "launch"}
MaySignal(sig) ==
  /\ run \notin Returned
  /\ sig = Hup => launched + (IF run \in Reloading THEN 1 ELSE 0) < StartBound
  /\ patient => run = "select" /\ \A s \in Starts : at[s] \notin ComingUp

\* signal.Notify does not wait for room: a signal that finds none is lost.
Signal(sig) ==
  /\ MaySignal(sig)
  /\ sigCh = None /\ sigCh' = sig
  /\ UNCHANGED <<errCh, runner, tunnels, ended, open, starts>>

Next ==
  /\ UNCHANGED fixed
  /\ \/ \E sig \in {Hup, Term} : Signal(sig)
     \/ RunStep
     \/ \E s \in Starts : StartStep(s) \/ LoopFails(s)

Spec == Init /\ [][Next]_vars

\* Run and the goroutines run when they can; nobody need send a signal.
FairSpec ==
  /\ Spec
  /\ WF_vars(RunStep /\ UNCHANGED fixed)
  /\ \A s \in Starts : WF_vars(StartStep(s) /\ UNCHANGED fixed)

-----------------------------------------------------------------------------
\* Every variable has its type; t.tunnel and the goroutines are those made so far,
\* and a tunnel's lock is held by the Start that is about to listen.
SupTypeOK ==
  /\ parsed \in Files
  /\ sigCh \in {None, Hup, Term} /\ errCh \in {None, "nil", "error"}
  /\ run \in {"select", "term"} \cup Reloading \cup Returned
  /\ launched \in Starts /\ tunnel \in 1..launched + 1
  /\ conf \in [Tunnels -> Files]
  /\ \A t \in Tunnels : /\ status[t] \in {"stopped", "starting", "running", "failed"}
                        /\ {current[t], listener[t]} \subseteq Starts \cup {None}
                        /\ lifeMu[t] # None => at[lifeMu[t]] = "begun" /\ of[lifeMu[t]] = t
  /\ open \subseteq Starts /\ ended \subseteq Starts \cup {None}
  /\ at \in [Starts -> Locations]
  /\ \A s \in Starts : at[s] = "idle" <=> s > launched

\* When the user waits for a reload to be over before the next signal, however the
\* old Start overlaps the new one, in place or fresh, the program listens once at
\* most, and it is t.tunnel that listens, so that Stop reaches it
\* (embedding.go:136-153).
OneTunnelServes ==
  patient => /\ \A s \in open : of[s] = tunnel /\ listener[tunnel] = s
             /\ \A s \in Starts : at[s] = "begun" => open = {}

\* With such a user, what listens is bound as its configuration says: LoadConfig
\* never puts another one under it, nor a fresh tunnel beside it (embedding.go:145-152).
BoundAsLoaded ==
  patient => \A s \in open : bound[s] = conf[of[s]]

\* When a user who waits has ended the program with SIGTERM, Run returns nil with
\* every listener closed and no Start yet to begin (embedding.go:155-158, 187).
StoppedWhenReturned ==
  patient /\ run = "returnedNil" =>
    open = {} /\ \A s \in Starts : at[s] \notin ComingUp

\* Run is never stuck: a SIGTERM it has room for ends it, a SIGHUP leads to a Reload
\* that ends, though Stop waits for the lock of a tunnel that is starting.
SignalsAreServed ==
  /\ sigCh = Term ~> run \in Returned
  /\ sigCh = Hup ~> run \in Returned \cup {"stop"}
  /\ run = "stop" ~> run \in Returned \cup {"select"}

\* EMBEDDING_EXAMPLES.md:465, "The tunnel restarts with the new configuration":
\* after a Reload the tunnel comes to serve, unless the next signal comes first or
\* Run returns the error that keeps it from serving.
ReloadRestarts ==
  patient /\ run = "launch" ~>
    \/ run \in Returned \cup {"stop", "term"}
    \/ \E s \in open : at[s] = "serving"
=============================================================================
