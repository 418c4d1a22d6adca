----------------------------- MODULE TunnelOptions -----------------------------
(***************************************************************************)
(* SetOptions and LoadConfig of a tunnel whose Start and Stop are those of *)
(* TunnelLifecycle.  The TCP client validates a form before it takes       *)
(* lifeMu and applies it as a whole, and checks the status again under     *)
(* lifeMu before it installs a file.  The tunnels that use                 *)
(* TunnelBase.SetOptions, of which the IRC client stands here for those    *)
(* that bind a local port, apply one field after the other without a lock  *)
(* and check the status once.  Start binds the address that is configured  *)
(* when it listens, under lifeMu.                                          *)
(***************************************************************************)
EXTENDS OptionValues

CONSTANTS
  Starts, Stops, None, MaxAcceptErrors, Discipline, CapturesDone, ExclusivePort, Limited,
  Setters,   \* the calls of SetOptions that may be made
  Loaders,   \* the calls of LoadConfig that may be made
  Forms,     \* what SetOptions may be given
  Files,     \* what a configuration file may hold
  Initial    \* the configuration of the constructor

ASSUME OptionCallsAssumption == (Starts \cup Stops \cup {None}) \cap (Setters \cup Loaders) = {}

\* Those of TunnelLifecycle, which an instance does not bring.
ASSUME LifeCallsAssumption == Starts \cap Stops = {} /\ None \notin Starts \cup Stops

\* The converter hands out valid configurations only, the constructor whole ones.
ASSUME FilesAssumption ==
  /\ DOMAIN Initial = Fields
  /\ \A file \in Files \cup {Initial} :
       /\ Filed \ {"i2cp"} \subseteq DOMAIN file
       /\ AllValid(file, Fields)

\* Local ports are exclusive; here by their address, see Bind.
ASSUME AddressAssumption == ~ExclusivePort

VARIABLES
  lifeMu, done, closed, stopUsed, listener, open, status, uptime, pc, seen, errors, outcome,
  kind,      \* "tcpclient" or "ircclient"
  config,    \* t.TunnelConfig, t.I2PAddr, the limits
  at,        \* where each call of SetOptions or LoadConfig stands
  arg,       \* its form or file
  todo,      \* the fields SetOptions of the IRC client has yet to apply
  bound      \* the address of the listener of each Start

Life == INSTANCE TunnelLifecycle

life == <<lifeMu, done, closed, stopUsed, listener, open, status, uptime,
          pc, seen, errors, outcome>>
options == <<config, at, arg, todo>>
vars == <<life, kind, options, bound>>

OptionCalls == Setters \cup Loaders
AtomicKind == kind = "tcpclient"

Moves(c, from, to) == at[c] = from /\ at' = [at EXCEPT ![c] = to]

\* The call returns; its form or file is no longer of interest.
Ends(c, from, to) == Moves(c, from, to) /\ arg' = [arg EXCEPT ![c] = Initial]

Init ==
  /\ Life!Init
  /\ kind \in {"tcpclient", "ircclient"}
  /\ config = Initial
  /\ at = [c \in OptionCalls |-> "idle"]
  /\ arg = [c \in OptionCalls |-> Initial]
  /\ todo = [c \in Setters |-> {}]
  /\ bound = [s \in Starts |-> None]

-----------------------------------------------------------------------------
\* CheckTunnelStopped
TunnelStopped == status \notin {"running", "starting"}

\* Slip: the status is not checked a second time.
StillStoppedSlip == TRUE
\* CheckTunnelStopped again, under lifeMu.
StillStopped == TunnelStopped

-----------------------------------------------------------------------------
(***************************************************************************)
(* SetOptions.                                                             *)
(***************************************************************************)
CallSet(c) ==
  /\ Moves(c, "idle", "set")
  /\ \E form \in Forms :
       /\ arg' = [arg EXCEPT ![c] = form]
       /\ todo' = [todo EXCEPT ![c] = IF AtomicKind THEN {} ELSE DOMAIN form \cap BaseFields]
  /\ UNCHANGED config

\* validateTCPClientOptions, without a lock.
Validate(c) ==
  /\ AtomicKind
  /\ \/ AllValid(arg[c], ClientFields) /\ Moves(c, "set", "apply") /\ UNCHANGED arg
     \/ ~AllValid(arg[c], ClientFields) /\ Ends(c, "set", "refused")
  /\ UNCHANGED <<config, todo>>

\* applyTCPClientOpts, under lifeMu.
Apply(c) ==
  /\ lifeMu = None
  /\ Ends(c, "apply", "returned")
  /\ config' = Merge(config, arg[c], ClientFields)
  /\ UNCHANGED todo

\* The field TunnelBase.SetOptions comes to next.
IsNext(c, f) == f \in todo[c] /\ \A g \in todo[c] : ~Before(g, f)

\* TunnelBase.SetOptions and the target after it: validate a field, apply it.
ApplyField(c) ==
  /\ \E f \in todo[c] :
       /\ IsNext(c, f) /\ Valid(f, arg[c][f])
       /\ config' = [config EXCEPT ![f] = arg[c][f]]
       /\ todo' = [todo EXCEPT ![c] = @ \ {f}]
  /\ Moves(c, "set", "set")
  /\ UNCHANGED arg

\* The first field that is not valid ends SetOptions; what is applied stays.
RefuseField(c) ==
  /\ \E f \in todo[c] : IsNext(c, f) /\ ~Valid(f, arg[c][f])
  /\ Ends(c, "set", "refused")
  /\ todo' = [todo EXCEPT ![c] = {}]
  /\ UNCHANGED config

SetReturns(c) ==
  /\ ~AtomicKind
  /\ todo[c] = {}
  /\ Ends(c, "set", "returned")
  /\ UNCHANGED <<config, todo>>

-----------------------------------------------------------------------------
(***************************************************************************)
(* LoadConfig.                                                             *)
(***************************************************************************)
\* The status is checked and the file is read.
CallLoad(c) ==
  /\ TunnelStopped
  /\ Moves(c, "idle", "parsed")
  /\ \E file \in Files : arg' = [arg EXCEPT ![c] = file]
  /\ UNCHANGED <<config, todo>>

\* The tunnel is not stopped, or the file, its type or its target is no good.
RefuseLoad(c) == Moves(c, "idle", "refused") /\ UNCHANGED <<config, arg, todo>>

\* The TCP client installs the file under lifeMu, if the tunnel is still stopped;
\* the IRC client installs it.
Install(c) ==
  /\ AtomicKind => lifeMu = None
  /\ \/ /\ AtomicKind => StillStopped
        /\ Ends(c, "parsed", "returned")
        /\ config' = Loaded(config, arg[c], AtomicKind)
     \/ /\ AtomicKind /\ ~StillStopped
        /\ Ends(c, "parsed", "refused")
        /\ UNCHANGED config
  /\ UNCHANGED todo

-----------------------------------------------------------------------------
\* Start of the IRC client reads i.Interface and then i.Port, while SetOptions
\* and LoadConfig, which take no lock, may write between the two.
ReadInterface(s) ==
  /\ ~AtomicKind
  /\ pc[s] = "listen" /\ bound[s] = None
  /\ bound' = [bound EXCEPT ![s] = <<config["interface"]>>]
  /\ UNCHANGED life

\* Start listens where the configuration says, if nobody listens there.
Bind(s) ==
  /\ Life!Listen(s)
  /\ ~AtomicKind => bound[s] # None
  /\ LET interface == IF AtomicKind THEN config["interface"] ELSE bound[s][1]
         address   == <<interface, config["port"]>>
     IN  /\ \A l \in open : bound[l] # address
         /\ bound' = [bound EXCEPT ![s] = address]

\* Every other step of the life cycle opens no listener; a closed one has no address.
Opens == ~(open' \subseteq open)
Forget == bound' = [s \in Starts |-> IF s \in open' \/ pc'[s] = "listen" THEN bound[s] ELSE None]

LifeStep ==
  \/ Life!Next /\ ~Opens /\ Forget
  \/ \E s \in Starts : ReadInterface(s) \/ Bind(s)

SetStep(c) == Validate(c) \/ Apply(c) \/ ApplyField(c) \/ RefuseField(c) \/ SetReturns(c)

Next ==
  /\ \/ LifeStep /\ UNCHANGED options
     \/ /\ \/ \E c \in Setters : CallSet(c) \/ SetStep(c)
           \/ \E c \in Loaders : CallLoad(c) \/ RefuseLoad(c) \/ Install(c)
        /\ UNCHANGED <<life, bound>>
  /\ UNCHANGED kind

Spec == Init /\ [][Next]_vars

\* Goroutines that are not blocked run.
Runs(A) == A /\ UNCHANGED <<kind, options>>
RunsOption(A) == A /\ UNCHANGED <<life, bound, kind>>
FairSpec ==
  /\ Spec
  /\ \A s \in Starts :
       WF_vars(Runs(ReadInterface(s) \/ Bind(s) \/ (Life!StartStep(s) /\ ~Opens /\ Forget)))
  /\ \A c \in Stops : WF_vars(Runs(Life!StopStep(c) /\ Forget))
  /\ \A c \in Setters : WF_vars(RunsOption(SetStep(c)))
  /\ \A c \in Loaders : WF_vars(RunsOption(Install(c)))

-----------------------------------------------------------------------------
\* The calls stand where they may, and whatever calls of SetOptions and LoadConfig
\* have applied, in whatever order and however far, no option has a value that its
\* validator refuses (options.go:88-175): a port is in 1..65535 when Start comes to
\* listen on it, a limit is never negative.
ConfigTypeOK ==
  /\ kind \in {"tcpclient", "ircclient"}
  /\ config["port"] \in Ports
  /\ {config["maxconns"], config["dialtimeout"]} \subseteq Nat
  /\ config["ratelimit"] \in Nat \cup {NaN}
  /\ Bad \notin {config["name"], config["interface"], config["target"]}
  /\ \A c \in OptionCalls : at[c] \in {"idle", "set", "apply", "parsed", "returned", "refused"}
  /\ \A c \in Setters : todo[c] \subseteq DOMAIN arg[c]
  /\ \A s \in open : Len(bound[s]) = 2 /\ bound[s][2] \in Ports

\* The listener on which a Start accepts, until it gives up or is stopped.
Accepting(s) == s \in open /\ pc[s] \in {"setRunning", "recordStart", "readDone"} \cup Life!Looping

\* The address the tunnel listens on, or None.
ListensAt ==
  IF \E s \in Starts : Accepting(s) THEN bound[CHOOSE s \in Starts : Accepting(s)] ELSE None

\* SetOptions and LoadConfig keep the promises of Configuration: the TCP client's
\* are atomic, however they overlap each other, Start, Stop and a tunnel that fails
\* (tcp_client.go:392-394, 456-459; options.go:37-39).
Promise == INSTANCE Configuration WITH atomic <- AtomicKind, bound <- ListensAt
ImplementsConfiguration == Promise!Spec

\* Every call of SetOptions and LoadConfig returns: it waits for lifeMu only as
\* long as a startup or a Stop lasts.
OptionCallsReturn ==
  \A c \in OptionCalls :
    at[c] \in {"set", "apply", "parsed"} ~> at[c] \in {"returned", "refused"}
=============================================================================
