--------------------------- MODULE SupervisorProofs ----------------------------
(***************************************************************************)
(* What holds of Run and Reload for any number of reloads, any files, any  *)
(* ports and types they name, and any tunnels made on the way.             *)
(***************************************************************************)
EXTENDS Supervisor, TLAPS

Errors == {None, "nil", "error"}
Statuses == {"stopped", "starting", "running", "failed"}
RunLocations == {"select", "term"} \cup Reloading \cup Returned

\* The types of the variables, without the numbers of tunnels and goroutines.
SupTypes ==
  /\ parsed \in Files
  /\ sigCh \in {None, Hup, Term} /\ errCh \in Errors
  /\ run \in RunLocations
  /\ conf \in [Tunnels -> Files] /\ status \in [Tunnels -> Statuses]
  /\ current \in [Tunnels -> Starts \cup {None}] /\ listener \in [Tunnels -> Starts \cup {None}]
  /\ lifeMu \in [Tunnels -> Starts \cup {None}] /\ stopUsed \in [Tunnels -> BOOLEAN]
  /\ open \subseteq Starts /\ ended \subseteq Starts \cup {None}
  /\ at \in [Starts -> Locations] /\ of \in [Starts -> Tunnels]
  /\ bound \in [Starts -> Files] /\ result \in [Starts -> Errors]

\* A tunnel's lock is held by the Start that is about to listen.
LockInv ==
  \A t \in Tunnels : lifeMu[t] # None => at[lifeMu[t]] = "begun" /\ of[lifeMu[t]] = t

\* Every SIGHUP that is under way will launch one Start, and each Reload makes one
\* tunnel at most.
Claim(b) == IF b THEN 1 ELSE 0
BudgetInv ==
  /\ launched \in Nat \ {0} /\ tunnel \in Nat \ {0}
  /\ launched + Claim(sigCh = Hup) + Claim(run \in Reloading) <= MaxStarts
  /\ tunnel <= launched + 1
  /\ run # "launch" => tunnel <= launched

LaunchedInv == \A s \in Starts : at[s] = "idle" <=> s > launched

SupInv == SupTypes /\ LockInv /\ BudgetInv /\ LaunchedInv

\* A listener that is open is that of t.tunnel, bound as its configuration says and
\* not yet stopped.
OpenInv ==
  \A s \in open :
    /\ of[s] = tunnel /\ listener[tunnel] = s /\ ~stopUsed[tunnel] /\ bound[s] = conf[tunnel]
    /\ at[s] \in {"bound", "serving", "failing", "leaving", "closing"}

\* One Start at most is coming up, that of t.tunnel, while no signal is under way and
\* Run is in its select or has returned an error; until it has bound, nobody listens.
ComingInv ==
  \A s \in Starts : at[s] \in ComingUp =>
    /\ \A q \in Starts : at[q] \in ComingUp => q = s
    /\ at[s] # "launched" => of[s] = tunnel
    /\ at[s] # "bound" => open = {}
    /\ at[s] = "begun" => lifeMu[tunnel] = s /\ ~stopUsed[tunnel]
    /\ sigCh = None /\ run \in {"select", "returnedError"}

\* A signal waits for the select; what Run has stopped stays stopped until it launches
\* a Start or has returned.
ReloadInv ==
  /\ sigCh # None => run \in {"select", "returnedError"}
  /\ run \in {"load", "install", "fresh", "launch", "returnedNil"} => open = {}

PatientInv == patient => OpenInv /\ ComingInv /\ ReloadInv

-----------------------------------------------------------------------------
LEMMA NoneIsNone ==
  /\ None \notin Starts /\ None # Hup /\ None # Term
  /\ MaxStarts \in Nat \ {0}
BY StartsAssumption DEF Starts, Hup, Term

\* t.tunnel has a number, and while Run reloads there is room for one Start more.
LEMMA Numbers ==
  ASSUME SupInv
  PROVE  /\ tunnel \in Tunnels /\ launched \in Starts
         /\ run \in Reloading => launched + 1 \in Starts
         /\ run \in Reloading \ {"launch"} => tunnel + 1 \in Tunnels
<1>1. launched + Claim(run \in Reloading) <= MaxStarts
  BY NoneIsNone DEF SupInv, BudgetInv, Claim
<1>2. run = "launch" => run \in Reloading
  BY DEF Reloading
<1> QED
  BY <1>1, <1>2, NoneIsNone DEF SupInv, BudgetInv, Claim, Tunnels, Starts

\* StopTunnel changes the status, the done channels and the listeners of its tunnel.
LEMMA StopShape ==
  ASSUME SupTypes, NEW t \in Tunnels, StopTunnel(t)
  PROVE  /\ lifeMu[t] = None /\ UNCHANGED <<conf, current, listener, lifeMu>>
         /\ stopUsed' \in [Tunnels -> BOOLEAN] /\ stopUsed'[t]
         /\ \A u \in Tunnels : u # t => stopUsed'[u] = stopUsed[u]
         /\ status' \in [Tunnels -> Statuses]
         /\ ended' \subseteq Starts \cup {None}
         /\ open' \subseteq open
         /\ ~stopUsed[t] => listener[t] \notin open'
<1>1. CASE stopUsed[t] /\ UNCHANGED <<stopUsed, ended, open, status>>
  BY <1>1 DEF SupTypes, StopTunnel
<1>2. CASE /\ ~stopUsed[t]
           /\ stopUsed' = [stopUsed EXCEPT ![t] = TRUE]
           /\ ended' = ended \cup {current[t]}
           /\ open' = open \ {listener[t]}
           /\ status' = [status EXCEPT ![t] = "stopped"]
  BY <1>2 DEF SupTypes, StopTunnel, Statuses
<1> QED
  BY <1>1, <1>2 DEF StopTunnel, CloseListener

\* The variables keep their types.
LEMMA TypesSteps ==
  ASSUME SupInv, [Next]_vars
  PROVE  SupTypes'
<1> USE Numbers, FilesAssumption DEF SupTypes, Errors, Statuses, channels, runner, starts, tunnels
<1>0. /\ SupTypes /\ run \in RunLocations /\ tunnel \in Tunnels
      /\ {"stop", "term", "returnedNil", "returnedError", "select", "launch", "load", "install", "fresh"} \subseteq RunLocations
      /\ {"launched", "called", "begun", "bound", "serving", "failing", "leaving", "closing", "send", "over"} \subseteq Locations
  BY DEF SupInv, RunLocations, Reloading, Returned, Locations, ComingUp
<1>1. ASSUME NEW sig \in {Hup, Term}, Signal(sig) PROVE SupTypes'
  BY <1>0, <1>1 DEF Signal
<1>2. CASE RunStep
  <2>1. CASE ReceiveHup \/ ReceiveTerm \/ ReceiveNil \/ ReceiveError
    BY <1>0, <2>1 DEF ReceiveHup, ReceiveTerm, ReceiveNil, ReceiveError, Receive, Step
  <2>2. CASE TermStop
    BY <1>0, <2>2, StopShape DEF TermStop, Step
  <2>3. CASE ReloadStop
    BY <1>0, <2>3, StopShape DEF ReloadStop, StopFirst, Step
  <2>4. CASE Install \/ LaunchStart
    BY <1>0, <2>4 DEF Install, LaunchStart, Step
  <2>5. ASSUME NEW f \in Files \cup {Broken},
               LoadConfig(f) \/ LoadConfigError(f) \/ LoadFresh(f) \/ LoadFreshError(f)
        PROVE  SupTypes'
    BY <1>0, <2>5 DEF LoadConfig, LoadConfigError, LoadFresh, LoadFreshError, Reloadable, Step
  <2> QED
    BY <1>2, <2>1, <2>2, <2>3, <2>4, <2>5 DEF RunStep
<1>3. ASSUME NEW s \in Starts, StartStep(s) \/ LoopFails(s) PROVE SupTypes'
  <2>1. CASE ReadTunnel(s) \/ LoopStopped(s) \/ LoopFails(s)
    BY <1>0, <2>1 DEF ReadTunnel, LoopStopped, LoopFails, Goto
  <2>2. CASE Begin(s)
    BY <1>0, <2>2 DEF Begin, Goto
  <2>3. CASE Bind(s)
    BY <1>0, <2>3 DEF Bind, Goto
  <2>4. CASE BindError(s) \/ SetRunning(s) \/ SetFailed(s)
    BY <1>0, <2>4 DEF BindError, UnlockOnError, SetRunning, SetFailed, Goto
  <2>5. CASE DeferredStop(s)
    BY <1>0, <2>5, StopShape DEF DeferredStop, Goto
  <2>6. CASE DeferredClose(s)
    BY <1>0, <2>6 DEF DeferredClose, Goto
  <2>7. CASE Send(s)
    <3>1. 1 \in Tunnels
      BY NoneIsNone DEF Tunnels
    <3> QED
      BY <1>0, <2>7, <3>1 DEF Send, Goto
  <2> QED
    BY <1>3, <2>1, <2>2, <2>3, <2>4, <2>5, <2>6, <2>7 DEF StartStep
<1>4. CASE UNCHANGED vars
  BY <1>0, <1>4 DEF vars
<1> QED
  BY <1>1, <1>2, <1>3, <1>4 DEF Next

\* A Start takes the lock of its tunnel before it is about to listen and gives it back
\* after, on the error path too.
LEMMA LockSteps ==
  ASSUME SupInv, [Next]_vars
  PROVE  LockInv'
<1> USE NoneIsNone, Numbers DEF SupTypes, channels, runner, starts, tunnels
<1>0. SupTypes /\ LockInv /\ \A t \in Tunnels : lifeMu[t] \in Starts \cup {None}
  BY DEF SupInv
<1>1. ASSUME NEW sig \in {Hup, Term}, Signal(sig) PROVE LockInv'
  BY <1>0, <1>1 DEF Signal, LockInv
<1>2. CASE RunStep
  <2>1. CASE LaunchStart
    <3>1. at[launched + 1] = "idle" /\ launched + 1 \in Starts
      BY <2>1 DEF LaunchStart, Step, Reloading, SupInv, LaunchedInv, BudgetInv
    <3> QED
      BY <1>0, <2>1, <3>1 DEF LaunchStart, LockInv
  <2>2. CASE TermStop \/ ReloadStop
    BY <1>0, <2>2 DEF TermStop, ReloadStop, StopFirst, StopTunnel, LockInv
  <2>3. CASE ~LaunchStart /\ ~TermStop /\ ~ReloadStop
    <3>1. UNCHANGED <<lifeMu, at, of>>
      BY <1>2, <2>3 DEF RunStep, ReceiveHup, ReceiveTerm, ReceiveNil, ReceiveError, Receive, Install,
         LoadConfig, LoadConfigError, LoadFresh, LoadFreshError
    <3> QED
      BY <1>0, <3>1 DEF LockInv
  <2> QED
    BY <2>1, <2>2, <2>3
<1>3. ASSUME NEW s \in Starts, StartStep(s) \/ LoopFails(s) PROVE LockInv'
  <2>1. CASE ReadTunnel(s) \/ LoopStopped(s) \/ LoopFails(s) \/ SetRunning(s) \/ SetFailed(s)
    BY <1>0, <2>1 DEF ReadTunnel, LoopStopped, LoopFails, SetRunning, SetFailed, Goto, LockInv
  <2>2. CASE Begin(s)
    BY <1>0, <2>2 DEF Begin, Goto, LockInv
  <2>3. CASE Bind(s) \/ BindError(s)
    BY <1>0, <2>3 DEF Bind, BindError, UnlockOnError, Goto, LockInv
  <2>4. CASE DeferredStop(s)
    BY <1>0, <2>4 DEF DeferredStop, StopTunnel, Goto, LockInv
  <2>5. CASE DeferredClose(s) \/ Send(s)
    BY <1>0, <2>5 DEF DeferredClose, Send, Goto, LockInv
  <2> QED
    BY <1>3, <2>1, <2>2, <2>3, <2>4, <2>5 DEF StartStep
<1>4. CASE UNCHANGED vars
  BY <1>0, <1>4 DEF vars, LockInv
<1> QED
  BY <1>1, <1>2, <1>3, <1>4 DEF Next

\* A SIGHUP is sent only if there is room for its Start; a Reload makes a tunnel only
\* before it launches its Start.
LEMMA BudgetSteps ==
  ASSUME SupInv, [Next]_vars
  PROVE  BudgetInv' /\ LaunchedInv'
<1> USE NoneIsNone DEF BudgetInv, Claim
<1>0. BudgetInv /\ LaunchedInv /\ at \in [Starts -> Locations]
  BY DEF SupInv, SupTypes
<1>1. ASSUME NEW sig \in {Hup, Term}, Signal(sig) PROVE BudgetInv' /\ LaunchedInv'
  <2>1. sigCh = None /\ sigCh' = sig /\ UNCHANGED <<run, launched, tunnel, at>>
    BY <1>1 DEF Signal, runner, starts
  <2>2. sig = Hup => launched + Claim(run \in Reloading) < MaxStarts
    BY <1>0, <1>1 DEF Signal, MaySignal, StartBound
  <2> QED
    BY <1>0, <2>1, <2>2 DEF LaunchedInv
<1>2. CASE RunStep
  <2>1. CASE ReceiveHup
    BY <1>0, <2>1 DEF ReceiveHup, Receive, Step, Reloading, LaunchedInv, starts
  <2>2. CASE ReceiveTerm \/ ReceiveNil \/ ReceiveError
    BY <1>0, <2>2 DEF ReceiveTerm, ReceiveNil, ReceiveError, Receive, Step, Reloading, LaunchedInv, starts, runner, Hup, Term
  <2>3. CASE TermStop \/ ReloadStop
    BY <1>0, <2>3 DEF TermStop, ReloadStop, Step, Reloading, LaunchedInv, starts, channels
  <2>4. CASE Install
    BY <1>0, <2>4 DEF Install, Step, Reloading, LaunchedInv, starts, channels
  <2>5. CASE LaunchStart
    <3>1. launched' = launched + 1 /\ run = "launch" /\ run' = "select" /\ UNCHANGED <<sigCh, tunnel>>
      BY <2>5 DEF LaunchStart, Step, channels
    <3>2. BudgetInv'
      BY <1>0, <3>1 DEF Reloading
    <3>3. LaunchedInv'
      BY <1>0, <2>5, <3>1 DEF LaunchStart, LaunchedInv, Starts
    <3> QED
      BY <3>2, <3>3
  <2>6. ASSUME NEW f \in Files \cup {Broken}, LoadConfig(f) \/ LoadConfigError(f) \/ LoadFreshError(f)
        PROVE  BudgetInv' /\ LaunchedInv'
    BY <1>0, <2>6 DEF LoadConfig, LoadConfigError, LoadFreshError, Step, Reloading, LaunchedInv, starts, channels
  <2>7. ASSUME NEW f \in Files \cup {Broken}, LoadFresh(f) PROVE BudgetInv' /\ LaunchedInv'
    BY <1>0, <2>7 DEF LoadFresh, Step, Reloading, LaunchedInv, starts, channels
  <2> QED
    BY <1>2, <2>1, <2>2, <2>3, <2>4, <2>5, <2>6, <2>7 DEF RunStep
<1>3. ASSUME NEW s \in Starts, StartStep(s) \/ LoopFails(s) PROVE BudgetInv' /\ LaunchedInv'
  <2>1. UNCHANGED <<sigCh, run, launched, tunnel>>
    BY <1>3 DEF StartStep, ReadTunnel, Begin, Bind, BindError, SetRunning, LoopStopped, LoopFails, SetFailed,
       DeferredStop, DeferredClose, Send, channels, runner
  <2>2. \E a \in Locations \ {"idle"} : at[s] # "idle" /\ at' = [at EXCEPT ![s] = a]
    BY <1>3 DEF StartStep, ReadTunnel, Begin, Bind, BindError, SetRunning, LoopStopped, LoopFails, SetFailed,
       DeferredStop, DeferredClose, Send, Goto, Locations, ComingUp
  <2> QED
    BY <1>0, <2>1, <2>2 DEF LaunchedInv
<1>4. CASE UNCHANGED vars
  BY <1>0, <1>4 DEF vars, channels, runner, starts, LaunchedInv
<1> QED
  BY <1>1, <1>2, <1>3, <1>4 DEF Next

\* Every variable has its type, whatever the user does (cmd/shared/runner.go).
THEOREM SupTypeCorrect == Spec => [](SupTypeOK /\ SupInv)
<1>1. Init => SupInv
  BY NoneIsNone, FilesAssumption
  DEF Init, SupInv, SupTypes, LockInv, BudgetInv, LaunchedInv, Claim, Errors, Statuses, RunLocations, Reloading,
      Locations, ComingUp, Starts, Tunnels
<1>2. SupInv /\ [Next]_vars => SupInv'
  BY TypesSteps, LockSteps, BudgetSteps DEF SupInv
<1>3. SupInv => SupTypeOK
  <2> SUFFICES ASSUME SupInv PROVE SupTypeOK
    OBVIOUS
  <2>1. launched \in Starts /\ tunnel \in 1..launched + 1
    BY Numbers DEF SupInv, BudgetInv
  <2>2. \A t \in Tunnels : /\ status[t] \in Statuses
                           /\ {current[t], listener[t]} \subseteq Starts \cup {None}
    BY DEF SupInv, SupTypes
  <2> QED
    BY <2>1, <2>2
    DEF SupInv, SupTypes, LockInv, LaunchedInv, SupTypeOK, Errors, Statuses, RunLocations
<1> QED
  BY <1>1, <1>2, <1>3, PTL DEF Spec

-----------------------------------------------------------------------------
\* The user who waits: patient, OpenInv, ComingInv and ReloadInv hold.
Waiting == patient /\ OpenInv /\ ComingInv /\ ReloadInv

\* A Stop of t.tunnel closes what is open.
LEMMA StopCloses ==
  ASSUME SupInv, Waiting, StopTunnel(tunnel)
  PROVE  open' = {}
<1>1. tunnel \in Tunnels /\ SupTypes
  BY Numbers DEF SupInv
<1>2. open' \subseteq open /\ (~stopUsed[tunnel] => listener[tunnel] \notin open')
  BY <1>1, StopShape
<1>3. \A s \in open : listener[tunnel] = s /\ ~stopUsed[tunnel]
  BY DEF Waiting, OpenInv
<1> QED
  BY <1>2, <1>3

\* A signal comes when Run selects and nothing is coming up.
LEMMA SignalWaits ==
  ASSUME SupInv, Waiting, NEW sig \in {Hup, Term}, Signal(sig)
  PROVE  OpenInv' /\ ComingInv' /\ ReloadInv'
<1>1. /\ UNCHANGED <<run, tunnel, conf, listener, stopUsed, lifeMu, open, at, of, bound>>
      /\ run = "select" /\ \A s \in Starts : at[s] \notin ComingUp
  BY DEF Signal, MaySignal, Waiting, runner, tunnels, starts
<1> QED
  BY <1>1 DEF Waiting, OpenInv, ComingInv, ReloadInv

\* Run stops t.tunnel before it loads, and launches a Start when nothing is open.
LEMMA RunWaits ==
  ASSUME SupInv, Waiting, RunStep
  PROVE  OpenInv' /\ ComingInv' /\ ReloadInv'
<1> USE NoneIsNone
<1>0. /\ SupTypes /\ OpenInv /\ ComingInv /\ ReloadInv
      /\ tunnel \in Tunnels /\ (run \in Reloading \ {"launch"} => tunnel + 1 \in Tunnels)
  BY Numbers DEF SupInv, Waiting
<1>1. CASE ReceiveHup \/ ReceiveTerm
  <2>1. /\ UNCHANGED <<tunnel, conf, listener, stopUsed, lifeMu, open, at, of, bound>>
        /\ sigCh # None /\ sigCh' = None /\ run' \in {"stop", "term"}
    BY <1>1 DEF ReceiveHup, ReceiveTerm, Receive, Step, tunnels, starts
  <2> QED
    BY <1>0, <2>1 DEF OpenInv, ComingInv, ReloadInv
<1>2. CASE ReceiveNil \/ ReceiveError
  <2>1. /\ UNCHANGED <<sigCh, tunnel, conf, listener, stopUsed, lifeMu, open, at, of, bound>>
        /\ run = "select" /\ run' \in {"select", "returnedError"}
    BY <1>2 DEF ReceiveNil, ReceiveError, Step, runner, tunnels, starts
  <2> QED
    BY <1>0, <2>1 DEF OpenInv, ComingInv, ReloadInv
<1>3. CASE TermStop \/ ReloadStop
  <2>1. /\ StopTunnel(tunnel) /\ UNCHANGED <<sigCh, at>>
        /\ run \in {"term", "stop"} /\ run' \in {"returnedNil", "launch", "load"}
    BY <1>3 DEF TermStop, ReloadStop, StopFirst, Step, channels, starts
  <2>2. open' = {}
    BY <2>1, StopCloses
  <2>3. sigCh = None /\ \A s \in Starts : at[s] \notin ComingUp
    BY <1>0, <2>1 DEF ReloadInv, ComingInv
  <2> QED
    BY <2>1, <2>2, <2>3 DEF OpenInv, ComingInv, ReloadInv
<1>4. CASE \/ Install
           \/ \E f \in Files \cup {Broken} :
                LoadConfig(f) \/ LoadConfigError(f) \/ LoadFresh(f) \/ LoadFreshError(f)
  <2>1. /\ UNCHANGED <<sigCh, open, at>>
        /\ run \in {"install", "load", "fresh"} /\ run' \in {"install", "fresh", "launch", "select"}
    BY <1>4 DEF Install, LoadConfig, LoadConfigError, LoadFresh, LoadFreshError, Step, channels, starts
  <2>2. open = {} /\ sigCh = None /\ \A s \in Starts : at[s] \notin ComingUp
    BY <1>0, <2>1 DEF ReloadInv, ComingInv
  <2> QED
    BY <2>1, <2>2 DEF OpenInv, ComingInv, ReloadInv
<1>5. CASE LaunchStart
  <2>1. /\ UNCHANGED <<sigCh, open, of>> /\ run = "launch" /\ run' = "select"
        /\ at' = [at EXCEPT ![launched + 1] = "launched"]
    BY <1>5 DEF LaunchStart, Step, channels
  <2>2. open = {} /\ sigCh = None /\ \A s \in Starts : at[s] \notin ComingUp
    BY <1>0, <2>1 DEF ReloadInv, ComingInv
  <2>3. \A s \in Starts : at'[s] \in ComingUp => s = launched + 1 /\ at'[s] = "launched"
    BY <1>0, <2>1, <2>2 DEF SupTypes
  <2> QED
    BY <2>1, <2>2, <2>3 DEF OpenInv, ComingInv, ReloadInv
<1> QED
  BY <1>1, <1>2, <1>3, <1>4, <1>5 DEF RunStep

\* A Start that is up or leaving disturbs the one that is coming up only by stopping
\* a tunnel whose lock it can take.
LEMMA StartWaits ==
  ASSUME SupInv, Waiting, NEW s \in Starts, StartStep(s) \/ LoopFails(s)
  PROVE  OpenInv' /\ ComingInv' /\ ReloadInv'
<1> USE NoneIsNone
<1>0. SupTypes /\ OpenInv /\ ComingInv /\ ReloadInv /\ tunnel \in Tunnels /\ of[s] \in Tunnels
  BY Numbers DEF SupInv, Waiting, SupTypes
<1>1. UNCHANGED <<sigCh, run, tunnel, conf>>
  BY DEF StartStep, ReadTunnel, Begin, Bind, BindError, SetRunning, LoopStopped, LoopFails, SetFailed,
       DeferredStop, DeferredClose, Send, channels, runner, tunnels, StopTunnel
<1>2. CASE ReadTunnel(s)
  <2>1. /\ at[s] = "launched" /\ at' = [at EXCEPT ![s] = "called"] /\ of' = [of EXCEPT ![s] = tunnel]
        /\ UNCHANGED <<open, listener, stopUsed, bound, lifeMu>>
    BY <1>2 DEF ReadTunnel, Goto, tunnels
  <2>2. open = {} /\ \A q \in Starts : at[q] \in ComingUp => q = s
    BY <1>0, <2>1 DEF ComingInv, ComingUp
  <2> QED
    BY <1>0, <1>1, <2>1, <2>2 DEF SupTypes, OpenInv, ComingInv, ReloadInv, ComingUp
<1>3. CASE Begin(s)
  <2>1. /\ at[s] = "called" /\ at' = [at EXCEPT ![s] = "begun"]
        /\ lifeMu' = [lifeMu EXCEPT ![of[s]] = s] /\ stopUsed' = [stopUsed EXCEPT ![of[s]] = FALSE]
        /\ UNCHANGED <<open, of>>
    BY <1>3 DEF Begin, Goto
  <2>2. open = {} /\ of[s] = tunnel /\ \A q \in Starts : at[q] \in ComingUp => q = s
    BY <1>0, <2>1 DEF ComingInv, ComingUp
  <2> QED
    BY <1>0, <1>1, <2>1, <2>2 DEF SupTypes, OpenInv, ComingInv, ReloadInv, ComingUp
<1>4. CASE Bind(s)
  <2>1. /\ at[s] = "begun" /\ at' = [at EXCEPT ![s] = "bound"]
        /\ bound' = [bound EXCEPT ![s] = conf[of[s]]] /\ open' = open \cup {s}
        /\ listener' = [listener EXCEPT ![of[s]] = s] /\ UNCHANGED <<stopUsed, of>>
    BY <1>4 DEF Bind, Goto
  <2>2. /\ open = {} /\ of[s] = tunnel /\ ~stopUsed[tunnel]
        /\ \A q \in Starts : at[q] \in ComingUp => q = s
        /\ run \in {"select", "returnedError"}
    BY <1>0, <2>1 DEF ComingInv, ComingUp
  <2> QED
    BY <1>0, <1>1, <2>1, <2>2 DEF SupTypes, OpenInv, ComingInv, ReloadInv, ComingUp
<1>5. CASE BindError(s)
  <2>1. /\ at[s] = "begun" /\ at' = [at EXCEPT ![s] = "send"]
        /\ UNCHANGED <<open, of, stopUsed, listener, bound>>
    BY <1>5 DEF BindError, Goto
  <2>2. open = {} /\ \A q \in Starts : at[q] \in ComingUp => q = s
    BY <1>0, <2>1 DEF ComingInv, ComingUp
  <2> QED
    BY <1>0, <1>1, <2>1, <2>2 DEF SupTypes, OpenInv, ComingInv, ReloadInv, ComingUp
<1>6. CASE SetRunning(s) \/ LoopStopped(s) \/ LoopFails(s) \/ SetFailed(s)
  <2>1. /\ \/ at[s] = "bound" /\ at' = [at EXCEPT ![s] = "serving"]
           \/ at[s] = "serving" /\ at' = [at EXCEPT ![s] = "leaving"]
           \/ at[s] = "serving" /\ at' = [at EXCEPT ![s] = "failing"]
           \/ at[s] = "failing" /\ at' = [at EXCEPT ![s] = "leaving"]
        /\ UNCHANGED <<open, of, stopUsed, listener, bound, lifeMu>>
    BY <1>6 DEF SetRunning, LoopStopped, LoopFails, SetFailed, Goto, tunnels
  <2> QED
    BY <1>0, <1>1, <2>1 DEF SupTypes, OpenInv, ComingInv, ReloadInv, ComingUp
<1>7. CASE DeferredStop(s)
  <2>1. /\ at[s] = "leaving" /\ at' = [at EXCEPT ![s] = "closing"] /\ UNCHANGED <<of, bound>>
        /\ StopTunnel(of[s])
    BY <1>7 DEF DeferredStop, Goto
  <2>2. /\ lifeMu[of[s]] = None /\ UNCHANGED <<listener, lifeMu>>
        /\ \A u \in Tunnels : u # of[s] => stopUsed'[u] = stopUsed[u]
        /\ open' \subseteq open
    BY <1>0, <2>1, StopShape
  <2>3. of[s] = tunnel => open' = {}
    BY <2>1, StopCloses
  <2>4. OpenInv'
    BY <1>0, <1>1, <2>1, <2>2, <2>3 DEF SupTypes, OpenInv
  <2>5. ComingInv'
    BY <1>0, <1>1, <2>1, <2>2 DEF SupTypes, ComingInv, ComingUp
  <2>6. ReloadInv'
    BY <1>0, <1>1, <2>2 DEF ReloadInv
  <2> QED
    BY <2>4, <2>5, <2>6
<1>8. CASE DeferredClose(s)
  <2>1. /\ at[s] = "closing" /\ at' = [at EXCEPT ![s] = "send"] /\ open' = open \ {s}
        /\ bound' = [bound EXCEPT ![s] = First] /\ UNCHANGED <<listener, lifeMu, stopUsed, of>>
    BY <1>8 DEF DeferredClose, Goto, tunnels
  <2> QED
    BY <1>0, <1>1, <2>1 DEF SupTypes, OpenInv, ComingInv, ReloadInv, ComingUp
<1>9. CASE Send(s)
  <2>1. /\ at[s] = "send" /\ at' = [at EXCEPT ![s] = "over"] /\ of' = [of EXCEPT ![s] = 1]
        /\ UNCHANGED <<open, bound, listener, lifeMu, stopUsed>>
    BY <1>9 DEF Send, Goto, tunnels
  <2> QED
    BY <1>0, <1>1, <2>1 DEF SupTypes, OpenInv, ComingInv, ReloadInv, ComingUp
<1> QED
  BY <1>2, <1>3, <1>4, <1>5, <1>6, <1>7, <1>8, <1>9 DEF StartStep

\* When the user waits for a reload to be over, what listens, what is coming up and where
\* Run stands go together as PatientInv says.
THEOREM PatientInvariant == Spec => [](SupInv /\ PatientInv)
<1>1. Init => PatientInv
  BY DEF Init, PatientInv, OpenInv, ComingInv, ReloadInv, ComingUp
<1>2. SupInv /\ PatientInv /\ [Next]_vars => PatientInv'
  <2> SUFFICES ASSUME SupInv, PatientInv, [Next]_vars, patient' PROVE OpenInv' /\ ComingInv' /\ ReloadInv'
    BY DEF PatientInv
  <2>1. Waiting
    BY DEF Next, vars, fixed, PatientInv, Waiting
  <2>2. CASE UNCHANGED vars
    BY <2>1, <2>2 DEF vars, channels, runner, tunnels, starts, Waiting, OpenInv, ComingInv, ReloadInv
  <2> QED
    BY <2>1, <2>2, SignalWaits, RunWaits, StartWaits DEF Next
<1> QED
  BY <1>1, <1>2, SupTypeCorrect, PTL DEF Spec

\* However the old Start overlaps the new one, in place or fresh, the program listens
\* once at most (embedding.go:187).
THEOREM OneTunnelServesCorrect == Spec => []OneTunnelServes
<1>1. SupInv /\ PatientInv => OneTunnelServes
  <2> SUFFICES ASSUME PatientInv, patient PROVE OneTunnelServes
    BY DEF OneTunnelServes
  <2>1. OpenInv /\ ComingInv /\ ReloadInv
    BY DEF PatientInv
  <2> QED
    BY <2>1 DEF OneTunnelServes, OpenInv, ComingInv, ReloadInv, ComingUp
<1> QED
  BY <1>1, PatientInvariant, PTL

\* What listens, listens where the configuration of t.tunnel says: no reload leaves the
\* tunnel of an earlier file behind.
THEOREM BoundAsLoadedCorrect == Spec => []BoundAsLoaded
<1>1. SupInv /\ PatientInv => BoundAsLoaded
  <2> SUFFICES ASSUME PatientInv, patient PROVE BoundAsLoaded
    BY DEF BoundAsLoaded
  <2>1. OpenInv /\ ComingInv /\ ReloadInv
    BY DEF PatientInv
  <2> QED
    BY <2>1 DEF BoundAsLoaded, OpenInv, ComingInv, ReloadInv, ComingUp
<1> QED
  BY <1>1, PatientInvariant, PTL

\* After a SIGTERM nothing listens any more (embedding.go:136-158).
THEOREM StoppedWhenReturnedCorrect == Spec => []StoppedWhenReturned
<1>1. SupInv /\ PatientInv => StoppedWhenReturned
  <2> SUFFICES ASSUME PatientInv, patient PROVE StoppedWhenReturned
    BY DEF StoppedWhenReturned
  <2>1. OpenInv /\ ComingInv /\ ReloadInv
    BY DEF PatientInv
  <2> QED
    BY <2>1 DEF StoppedWhenReturned, OpenInv, ComingInv, ReloadInv, ComingUp
<1> QED
  BY <1>1, PatientInvariant, PTL
=============================================================================
