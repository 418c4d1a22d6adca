------------------------- MODULE TunnelOptionsProofs -------------------------
(***************************************************************************)
(* What holds of TunnelOptions for any calls, forms and files: always, and *)
(* as long as the Starts of the tunnel do not overlap.                     *)
(***************************************************************************)
EXTENDS TunnelOptions, TLAPS

\* Only a Start in flight that is past Listen has its listener open.
PlaceInv ==
  /\ pc \in [Life!Calls -> Life!Locations]
  /\ open \subseteq Starts
  /\ \A s \in open : pc[s] \notin {"idle", "listen", "returned"}

\* What the configuration relies on, moreover, if Starts do not overlap.  A call
\* inside a critical section holds lifeMu; one Start at most is in flight; an open
\* listener is the one t.listener names; a Stop that writes the status has closed it.
HeldInv ==
  \A c \in Life!Calls :
    pc[c] \in {"listen", "closePort", "setStopped", "recordStop"} => lifeMu = c
AloneInv == \A s, t \in Starts : Life!InFlight(s) /\ Life!InFlight(t) => s = t
PortInv == open \subseteq {listener}
ClosedInv == \A c \in Life!Calls : pc[c] \in {"setStopped", "recordStop"} => open = {}

\* A Start that listens or accepts is announced by the status.
StatusInv == \A s \in Starts : pc[s] = "listen" \/ Accepting(s) => ~TunnelStopped

LifeInv == PlaceInv /\ HeldInv /\ AloneInv /\ PortInv /\ ClosedInv /\ StatusInv

\* A call of SetOptions works on one of the forms, and has validated it before it
\* applies it as a whole; a call of LoadConfig works on one of the files.
ArgInv ==
  \A c \in OptionCalls :
    /\ at[c] \in {"set", "apply"} => arg[c] \in Forms
    /\ at[c] = "apply" => AtomicKind /\ AllValid(arg[c], ClientFields)
    /\ at[c] = "parsed" => arg[c] \in Files

\* The fields yet to be applied are fields of the form that is being applied.
TodoInv ==
  \A c \in Setters :
    /\ todo[c] \subseteq DOMAIN arg[c] \cap BaseFields
    /\ AtomicKind \/ at[c] # "set" => todo[c] = {}

\* The interfaces that are configured at any time: Interfaces of Configuration.
Asked ==
  {Initial["interface"]} \cup {file["interface"] : file \in Files}
    \cup {form["interface"] : form \in {g \in Forms : "interface" \in DOMAIN g}}

\* The configuration is whole and valid, and its interface is one that was asked for.
ConfigInv ==
  /\ DOMAIN config = Fields
  /\ AllValid(config, Fields)
  /\ config["interface"] \in Asked

\* What has been read of an address, and the addresses.
Halves == {<<i>> : i \in Asked}
Addresses == Asked \X Ports

\* A listener has an address with a valid port; a Start that is about to listen
\* has read nothing or, if it reads the configuration in two steps, the interface.
BoundInv ==
  \A s \in Starts :
    /\ pc[s] = "idle" => bound[s] = None
    /\ pc[s] = "listen" /\ ~AtomicKind =>
         bound[s] \in Halves \cup {None}
    /\ s \in open => bound[s] \in Addresses

OptionsInv ==
  /\ kind \in {"tcpclient", "ircclient"}
  /\ at \in [OptionCalls -> {"idle", "set", "apply", "parsed", "returned", "refused"}]
  /\ DOMAIN arg = OptionCalls
  /\ DOMAIN todo = Setters
  /\ DOMAIN bound = Starts
  /\ ArgInv /\ TodoInv /\ ConfigInv

-----------------------------------------------------------------------------
\* The steps of the life cycle keep PlaceInv, however calls overlap.
LEMMA PlaceSteps ==
  ASSUME PlaceInv, Life!Next \/ UNCHANGED life
  PROVE  PlaceInv'
<1> USE LifeCallsAssumption
    DEF PlaceInv, Life!Calls, Life!Locations, Life!Starting, Life!Looping, Life!Stopping, Life!Over,
        Life!Goto, Life!locked, Life!port, Life!shown, Life!loops
<1>1. ASSUME NEW s \in Starts, Life!StartLock(s) PROVE PlaceInv'
  BY <1>1 DEF Life!StartLock
<1>2. ASSUME NEW s \in Starts, Life!StartStep(s) \/ Life!Network(s), ~Life!StopStep(s)
      PROVE  PlaceInv'
  <2>1. CASE \/ Life!Listen(s) \/ Life!ListenError(s) \/ Life!SetRunning(s)
             \/ Life!RecordStart(s) \/ Life!ReadDone(s)
    BY <2>1 DEF Life!Listen, Life!ListenError, Life!SetRunning, Life!RecordStart, Life!ReadDone
  <2>2. CASE Life!Loop(s) \/ Life!CheckDone(s) \/ Life!CountError(s) \/ Life!CloseListener(s)
    BY <2>2 DEF Life!Loop, Life!CheckDone, Life!CountError, Life!CloseListener, Life!Leave
  <2>3. CASE Life!ClosedAccept(s) \/ Life!TransientError(s) \/ Life!RateLimitHit(s) \/ Life!Accept(s)
    BY <2>3 DEF Life!ClosedAccept, Life!TransientError, Life!RateLimitHit, Life!AcceptFails, Life!Accept
  <2> QED
    BY <1>2, <2>1, <2>2, <2>3 DEF Life!StartStep, Life!Network
<1>3. ASSUME NEW c \in Life!Calls, Life!CallStop(c) \/ Life!StopStep(c) PROVE PlaceInv'
  BY <1>3 DEF Life!CallStop, Life!StopStep, Life!StopAgain, Life!StopOnce, Life!StopListener,
              Life!ClosePort, Life!SetStopped, Life!RecordStop, Life!AfterStop
<1>4. CASE Life!Terminated \/ UNCHANGED life
  BY <1>4 DEF Life!Terminated, Life!vars, life
<1> QED
  BY <1>1, <1>2, <1>3, <1>4 DEF Life!Next

\* They keep the rest of it as long as no Start is called while another is in flight.
LEMMA LifeSteps ==
  ASSUME LifeInv, Discipline # "overlapping", Life!Next \/ UNCHANGED life
  PROVE  LifeInv'
<1> USE LifeCallsAssumption
    DEF LifeInv, PlaceInv, HeldInv, AloneInv, PortInv, ClosedInv, StatusInv, TunnelStopped, Accepting,
        Life!Calls, Life!Locations, Life!Starting, Life!Looping, Life!Stopping, Life!Over,
        Life!InFlight, Life!Goto, Life!locked, Life!port, Life!shown, Life!loops
<1>1. ASSUME NEW s \in Starts, Life!StartLock(s) PROVE LifeInv'
  BY <1>1 DEF Life!StartLock, Life!MayStart, Life!Rearm, Life!Announce
<1>2. ASSUME NEW s \in Starts, Life!StartStep(s) \/ Life!Network(s), ~Life!StopStep(s)
      PROVE  LifeInv'
  <2>1. CASE Life!Listen(s)
    <3>1. open = {}
      BY <2>1 DEF Life!Listen
    <3> QED
      BY <2>1, <3>1 DEF Life!Listen, Life!Publish
  <2>2. CASE Life!ListenError(s)
    BY <2>2 DEF Life!ListenError, Life!UnlockOnError
  <2>3. CASE Life!SetRunning(s)
    BY <2>3 DEF Life!SetRunning
  <2>4. CASE Life!RecordStart(s)
    BY <2>4 DEF Life!RecordStart
  <2>5. CASE Life!ReadDone(s)
    BY <2>5 DEF Life!ReadDone
  <2>6. CASE Life!Loop(s) \/ Life!CheckDone(s)
    BY <2>6 DEF Life!Loop, Life!CheckDone, Life!Leave
  <2>7. CASE Life!ClosedAccept(s) \/ Life!TransientError(s) \/ Life!RateLimitHit(s) \/ Life!Accept(s)
    BY <2>7 DEF Life!ClosedAccept, Life!TransientError, Life!RateLimitHit, Life!AcceptFails, Life!Accept
  <2>8. CASE Life!CountError(s)
    BY <2>8 DEF Life!CountError, Life!Leave
  <2>9. CASE Life!CloseListener(s)
    BY <2>9 DEF Life!CloseListener
  <2> QED
    BY <1>2, <2>1, <2>2, <2>3, <2>4, <2>5, <2>6, <2>7, <2>8, <2>9 DEF Life!StartStep, Life!Network
<1>3. ASSUME NEW c \in Stops, Life!CallStop(c) PROVE LifeInv'
  BY <1>3 DEF Life!CallStop
<1>4. ASSUME NEW c \in Life!Calls, Life!StopStep(c) PROVE LifeInv'
  <2>1. CASE Life!StopAgain(c)
    BY <2>1 DEF Life!StopAgain, Life!AfterStop
  <2>2. CASE Life!StopOnce(c)
    BY <2>2 DEF Life!StopOnce
  <2>3. CASE Life!StopListener(c)
    BY <2>3 DEF Life!StopListener, Life!ClosePort
  <2>4. CASE Life!SetStopped(c)
    BY <2>4 DEF Life!SetStopped, Life!MarkStopped
  <2>5. CASE Life!RecordStop(c)
    BY <2>5 DEF Life!RecordStop, Life!AfterStop
  <2> QED
    BY <1>4, <2>1, <2>2, <2>3, <2>4, <2>5 DEF Life!StopStep
<1>5. CASE Life!Terminated \/ UNCHANGED life
  BY <1>5 DEF Life!Terminated, Life!vars, life
<1> QED
  BY <1>1, <1>2, <1>3, <1>4, <1>5 DEF Life!Next

\* No step but Listen lets a Start accept, and only StartLock makes one listen.
LEMMA AcceptingStays ==
  ASSUME PlaceInv, Life!Next, ~Opens, NEW s \in Starts
  PROVE  /\ Accepting(s)' => Accepting(s)
         /\ pc'[s] = "listen" => pc[s] \in {"idle", "listen"}
         /\ pc'[s] = "idle" => pc[s] = "idle"
         /\ s \in open' => s \in open
<1> USE LifeCallsAssumption
    DEF PlaceInv, Accepting, Opens,
        Life!Calls, Life!Locations, Life!Starting, Life!Looping, Life!Stopping, Life!Over,
        Life!Goto, Life!locked, Life!port, Life!shown, Life!loops
<1> DEFINE Goal == /\ Accepting(s)' => Accepting(s)
                   /\ pc'[s] = "listen" => pc[s] \in {"idle", "listen"}
                   /\ pc'[s] = "idle" => pc[s] = "idle"
                   /\ s \in open' => s \in open
<1>1. ASSUME NEW t \in Starts, Life!StartLock(t) PROVE Goal
  BY <1>1 DEF Life!StartLock
<1>2. ASSUME NEW t \in Starts, Life!StartStep(t) \/ Life!Network(t), ~Life!StopStep(t) PROVE Goal
  <2>1. CASE \/ Life!Listen(t) \/ Life!ListenError(t) \/ Life!SetRunning(t)
             \/ Life!RecordStart(t) \/ Life!ReadDone(t)
    BY <2>1 DEF Life!Listen, Life!ListenError, Life!SetRunning, Life!RecordStart, Life!ReadDone
  <2>2. CASE Life!Loop(t) \/ Life!CheckDone(t) \/ Life!CountError(t) \/ Life!CloseListener(t)
    BY <2>2 DEF Life!Loop, Life!CheckDone, Life!CountError, Life!CloseListener, Life!Leave
  <2>3. CASE Life!ClosedAccept(t) \/ Life!TransientError(t) \/ Life!RateLimitHit(t) \/ Life!Accept(t)
    BY <2>3 DEF Life!ClosedAccept, Life!TransientError, Life!RateLimitHit, Life!AcceptFails, Life!Accept
  <2> QED
    BY <1>2, <2>1, <2>2, <2>3 DEF Life!StartStep, Life!Network
<1>3. ASSUME NEW c \in Life!Calls, Life!CallStop(c) \/ Life!StopStep(c) PROVE Goal
  BY <1>3 DEF Life!CallStop, Life!StopStep, Life!StopAgain, Life!StopOnce, Life!StopListener,
              Life!SetStopped, Life!RecordStop, Life!AfterStop
<1>4. CASE Life!Terminated
  BY <1>4 DEF Life!Terminated, Life!vars
<1> QED
  BY <1>1, <1>2, <1>3, <1>4 DEF Life!Next

-----------------------------------------------------------------------------
\* Applying valid fields of a form, one or all of them, or a file, leaves a whole
\* and valid configuration.
LEMMA MergeKeeps ==
  ASSUME ConfigInv, NEW form \in Forms, AllValid(form, ClientFields),
         config' = Merge(config, form, ClientFields)
  PROVE  ConfigInv'
BY DEF ConfigInv, Merge, AllValid, ClientFields, Fields, Asked

LEMMA FieldKeeps ==
  ASSUME ConfigInv, NEW form \in Forms, NEW f \in DOMAIN form \cap BaseFields, Valid(f, form[f]),
         config' = [config EXCEPT ![f] = form[f]]
  PROVE  ConfigInv'
BY DEF ConfigInv, AllValid, BaseFields, Fields, Asked

LEMMA FileKeeps ==
  ASSUME ConfigInv, NEW file \in Files, NEW keeps \in BOOLEAN,
         config' = Loaded(config, file, keeps)
  PROVE  ConfigInv'
<1>1. Filed \ {"i2cp"} \subseteq DOMAIN file /\ AllValid(file, Fields)
  BY FilesAssumption
<1>2. Valid("i2cp", NoI2CP)
  BY DEF Valid
<1> QED
  BY <1>1, <1>2 DEF ConfigInv, Loaded, AllValid, Filed, Fields, Asked

\* The steps of SetOptions and LoadConfig keep their part of the invariant.
LEMMA OptionSteps ==
  ASSUME OptionsInv, UNCHANGED <<bound, kind>>,
         \/ \E c \in Setters : CallSet(c) \/ SetStep(c)
         \/ \E c \in Loaders : CallLoad(c) \/ RefuseLoad(c) \/ Install(c)
  PROVE  OptionsInv'
<1> USE DEF OptionsInv, ArgInv, TodoInv, OptionCalls, Moves, Ends, AtomicKind
<1>1. ASSUME NEW c \in Setters, CallSet(c) PROVE OptionsInv'
  BY <1>1 DEF CallSet, ConfigInv
<1>2. ASSUME NEW c \in Setters, Validate(c) PROVE OptionsInv'
  BY <1>2 DEF Validate, ConfigInv
<1>3. ASSUME NEW c \in Setters, Apply(c) PROVE OptionsInv'
  <2>1. ConfigInv'
    BY <1>3, MergeKeeps DEF Apply
  <2> QED
    BY <1>3, <2>1 DEF Apply
<1>4. ASSUME NEW c \in Setters, ApplyField(c) PROVE OptionsInv'
  <2>1. PICK f \in todo[c] : /\ Valid(f, arg[c][f])
                             /\ config' = [config EXCEPT ![f] = arg[c][f]]
                             /\ todo' = [todo EXCEPT ![c] = @ \ {f}]
    BY <1>4 DEF ApplyField
  <2>2. ConfigInv'
    BY <1>4, <2>1, FieldKeeps DEF ApplyField
  <2> QED
    BY <1>4, <2>1, <2>2 DEF ApplyField
<1>5. ASSUME NEW c \in Setters, RefuseField(c) \/ SetReturns(c) PROVE OptionsInv'
  BY <1>5 DEF RefuseField, SetReturns, ConfigInv
<1>6. ASSUME NEW c \in Loaders, CallLoad(c) \/ RefuseLoad(c) PROVE OptionsInv'
  BY <1>6 DEF CallLoad, RefuseLoad, ConfigInv
<1>7. ASSUME NEW c \in Loaders, Install(c) PROVE OptionsInv'
  <2>1. ConfigInv'
    <3>1. CASE UNCHANGED config
      BY <3>1 DEF ConfigInv
    <3>2. CASE config' = Loaded(config, arg[c], AtomicKind)
      BY <1>7, <3>2, FileKeeps DEF Install
    <3> QED
      BY <1>7, <3>1, <3>2 DEF Install
  <2> QED
    BY <1>7, <2>1 DEF Install
<1> QED
  BY <1>1, <1>2, <1>3, <1>4, <1>5, <1>6, <1>7 DEF SetStep

-----------------------------------------------------------------------------
\* Start listens at an address of the configuration, of which the IRC client may
\* have read the interface before.
LEMMA BindAddress ==
  ASSUME OptionsInv, BoundInv, NEW s \in Starts, Bind(s)
  PROVE  \E address \in Addresses : /\ bound' = [bound EXCEPT ![s] = address]
                                    /\ address[2] = config["port"]
                                    /\ AtomicKind => address = Address(config)
<1> DEFINE interface == IF AtomicKind THEN config["interface"] ELSE bound[s][1]
           address   == <<interface, config["port"]>>
<1>1. bound' = [bound EXCEPT ![s] = address]
  BY DEF Bind
<1>2. interface \in Asked
  <2>1. CASE AtomicKind
    BY <2>1 DEF OptionsInv, ConfigInv
  <2>2. CASE ~AtomicKind
    <3>1. bound[s] \in Halves
      BY <2>2 DEF Bind, BoundInv, Life!Listen, Life!Goto
    <3> HIDE DEF interface
    <3>2. bound[s][1] \in Asked
      BY <3>1 DEF Halves
    <3> QED
      BY <2>2, <3>2 DEF interface
  <2> QED
    BY <2>1, <2>2
<1>3. config["port"] \in Ports
  BY DEF OptionsInv, ConfigInv, AllValid, Valid, PortValid, Fields
<1>4. AtomicKind => address = Address(config)
  BY DEF Address
<1> HIDE DEF interface
<1>5. address \in Addresses /\ address[2] = config["port"]
  BY <1>2, <1>3 DEF Addresses
<1> HIDE DEF address
<1> QED
  BY <1>1, <1>4, <1>5

\* A step of the tunnel is one of its life cycle, or leaves that alone.
LEMMA LifeStepIs == LifeStep => Life!Next \/ UNCHANGED life
<1>1. ASSUME NEW s \in Starts, Bind(s) PROVE Life!Next
  BY <1>1 DEF Bind, Life!Next, Life!StartStep
<1> QED
  BY <1>1 DEF LifeStep, ReadInterface

\* Every step of the life cycle keeps the invariant, and the addresses are those
\* of the configuration.
LEMMA ListeningSteps ==
  ASSUME PlaceInv, OptionsInv, BoundInv, LifeStep, UNCHANGED <<options, kind>>
  PROVE  PlaceInv' /\ OptionsInv' /\ BoundInv'
<1> USE DEF options, AtomicKind
<1>1. PlaceInv'
  BY LifeStepIs, PlaceSteps
<1>2. OptionsInv'
  <2>1. DOMAIN bound' = Starts
    BY DEF LifeStep, Forget, ReadInterface, Bind, OptionsInv
  <2> QED
    BY <2>1 DEF OptionsInv, ArgInv, TodoInv, ConfigInv
<1>3. BoundInv'
  <2>1. ASSUME Life!Next, ~Opens, Forget PROVE BoundInv'
    <3> SUFFICES ASSUME NEW s \in Starts
                 PROVE  /\ pc'[s] = "idle" => bound'[s] = None
                        /\ pc'[s] = "listen" /\ ~AtomicKind =>
                             bound'[s] \in Halves \cup {None}
                        /\ s \in open' => bound'[s] \in Addresses
      BY DEF BoundInv
    <3>1. bound'[s] = IF s \in open' \/ pc'[s] = "listen" THEN bound[s] ELSE None
      BY <2>1 DEF Forget
    <3>2. /\ pc'[s] = "listen" => pc[s] \in {"idle", "listen"}
          /\ pc'[s] = "idle" => pc[s] = "idle"
          /\ s \in open' => s \in open
      BY <2>1, AcceptingStays
    <3> QED
      BY <3>1, <3>2 DEF BoundInv
  <2>2. ASSUME NEW s \in Starts, ReadInterface(s) PROVE BoundInv'
    <3>1. s \notin open /\ pc[s] = "listen"
      BY <2>2 DEF ReadInterface, PlaceInv
    <3>2. UNCHANGED <<open, pc>>
      BY <2>2 DEF ReadInterface, life
    <3>3. <<config["interface"]>> \in Halves
      BY DEF OptionsInv, ConfigInv, Halves
    <3>4. bound' = [bound EXCEPT ![s] = <<config["interface"]>>]
      BY <2>2 DEF ReadInterface
    <3> HIDE DEF Halves
    <3> DEFINE v == <<config["interface"]>>
    <3> HIDE DEF v
    <3>5. v \in Halves /\ bound' = [bound EXCEPT ![s] = v]
      BY <3>3, <3>4 DEF v
    <3> QED
      BY <3>1, <3>2, <3>5 DEF BoundInv, OptionsInv
  <2>3. ASSUME NEW s \in Starts, Bind(s) PROVE BoundInv'
    <3>1. /\ pc[s] = "listen" /\ pc' = [pc EXCEPT ![s] = "setRunning"]
          /\ open' = open \cup {s}
      BY <2>3 DEF Bind, Life!Listen, Life!Goto
    <3>2. PICK address \in Addresses : bound' = [bound EXCEPT ![s] = address]
      BY <2>3, BindAddress
    <3> QED
      BY <3>1, <3>2 DEF BoundInv, OptionsInv, PlaceInv, Life!Calls
  <2> QED
    BY <2>1, <2>2, <2>3 DEF LifeStep
<1> QED
  BY <1>1, <1>2, <1>3

LEMMA OptionsStart == Init => LifeInv /\ OptionsInv /\ BoundInv
<1> SUFFICES ASSUME Init PROVE LifeInv /\ OptionsInv /\ BoundInv
  OBVIOUS
<1>1. LifeInv
  BY DEF Init, LifeInv, PlaceInv, HeldInv, AloneInv, PortInv, ClosedInv, StatusInv, Accepting, TunnelStopped,
         Life!Init, Life!Calls, Life!Locations, Life!Over, Life!InFlight
<1>2. OptionsInv
  <2>1. ConfigInv
    BY FilesAssumption DEF Init, ConfigInv, Asked
  <2> QED
    BY <2>1 DEF Init, OptionsInv, ArgInv, TodoInv
<1>3. BoundInv
  BY DEF Init, Life!Init, BoundInv, Life!Calls
<1> QED
  BY <1>1, <1>2, <1>3

LEMMA OptionsKeep ==
  ASSUME PlaceInv, OptionsInv, BoundInv, [Next]_vars
  PROVE  PlaceInv' /\ OptionsInv' /\ BoundInv'
<1>1. CASE LifeStep /\ UNCHANGED <<options, kind>>
  BY <1>1, ListeningSteps
<1>2. ASSUME UNCHANGED <<life, bound, kind>>,
             UNCHANGED options
             \/ (\E c \in Setters : CallSet(c) \/ SetStep(c))
             \/ (\E c \in Loaders : CallLoad(c) \/ RefuseLoad(c) \/ Install(c))
      PROVE  PlaceInv' /\ OptionsInv' /\ BoundInv'
  <2>1. PlaceInv'
    BY <1>2, PlaceSteps
  <2>2. BoundInv'
    BY <1>2 DEF BoundInv, life, AtomicKind
  <2>3. OptionsInv'
    <3>1. CASE UNCHANGED options
      BY <1>2, <3>1 DEF options, OptionsInv, ArgInv, TodoInv, ConfigInv, AtomicKind
    <3> QED
      BY <1>2, <3>1, OptionSteps
  <2> QED
    BY <2>1, <2>2, <2>3
<1>3. CASE UNCHANGED vars
  BY <1>2, <1>3 DEF vars
<1>4. CASE Next
  BY <1>1, <1>2, <1>4 DEF Next
<1> QED
  BY <1>3, <1>4

LEMMA LifeKeeps ==
  ASSUME LifeInv, Discipline # "overlapping", [Next]_vars
  PROVE  LifeInv'
<1>1. Life!Next \/ UNCHANGED life
  BY LifeStepIs DEF Next, vars
<1> QED
  BY <1>1, LifeSteps

\* options.go:88-175: whatever SetOptions and LoadConfig have applied, in whatever
\* order and however far, the configuration is whole, every value in it is one its
\* validator accepts, and a listener is bound to a valid port.
THEOREM ConfigTypeCorrect == Spec => []ConfigTypeOK
<1>1. PlaceInv /\ OptionsInv /\ BoundInv => ConfigTypeOK
  <2> SUFFICES ASSUME PlaceInv, OptionsInv, BoundInv PROVE ConfigTypeOK
    OBVIOUS
  <2>1. \A f \in Fields : Valid(f, config[f])
    BY DEF OptionsInv, ConfigInv, AllValid
  <2>2. /\ config["port"] \in Ports
        /\ {config["maxconns"], config["dialtimeout"]} \subseteq Nat
        /\ config["ratelimit"] \in Nat \cup {NaN}
        /\ Bad \notin {config["name"], config["interface"], config["target"]}
    BY <2>1 DEF Fields, Valid, PortValid, CountValid, RateValid
  <2>3. ASSUME NEW s \in open PROVE Len(bound[s]) = 2 /\ bound[s][2] \in Ports
    <3>1. bound[s] \in Addresses
      BY DEF PlaceInv, BoundInv
    <3> QED
      BY <3>1 DEF Addresses
  <2> QED
    BY <2>2, <2>3 DEF ConfigTypeOK, OptionsInv, TodoInv, OptionCalls
<1>2. Init => PlaceInv /\ OptionsInv /\ BoundInv
  BY OptionsStart DEF LifeInv
<1> QED
  BY <1>1, <1>2, OptionsKeep, PTL DEF Spec

-----------------------------------------------------------------------------
\* The tunnel listens on the address of the one Start that accepts, if any does.
LEMMA ListensAtIs ==
  ASSUME LifeInv
  PROVE  /\ \A s \in Starts : Accepting(s) => ListensAt = bound[s]
         /\ (\A s \in Starts : ~Accepting(s)) => ListensAt = None
<1>1. ASSUME NEW s \in Starts, NEW t \in Starts, Accepting(s), Accepting(t) PROVE s = t
  BY <1>1 DEF LifeInv, AloneInv, Accepting, Life!InFlight, Life!Over, Life!Looping
<1>2. ASSUME NEW s \in Starts, Accepting(s) PROVE ListensAt = bound[s]
  <2>1. (CHOOSE t \in Starts : Accepting(t)) = s
    BY <1>1, <1>2
  <2> QED
    BY <1>2, <2>1 DEF ListensAt
<1> QED
  BY <1>2 DEF ListensAt

\* Configuration has the options of OptionValues in the same sense.
LEMMA SameValues ==
  /\ Promise!ClientFields = ClientFields
  /\ Promise!Interfaces = Asked
  /\ \A f, v : Promise!Valid(f, v) <=> Valid(f, v)
  /\ \A form, known : Promise!AllValid(form, known) <=> AllValid(form, known)
  /\ \A c, form, known : Promise!Merge(c, form, known) = Merge(c, form, known)
  /\ \A c, file, keeps : Promise!Loaded(c, file, keeps) = Loaded(c, file, keeps)
  /\ \A c : Promise!Address(c) = Address(c)
<1>1. Promise!Fields = Fields /\ Promise!ClientFields = ClientFields
  BY DEF Promise!Fields, Fields, Promise!ClientFields, ClientFields
<1>2. Promise!Interfaces = Asked
  BY DEF Promise!Interfaces, Asked
<1>3. Promise!Ports = Ports
  <2>1. Promise!MaxPort = MaxPort
    BY DEF Promise!MaxPort, MaxPort
  <2> QED
    BY <2>1 DEF Promise!Ports, Ports
<1>4. ASSUME NEW f, NEW v PROVE Promise!Valid(f, v) <=> Valid(f, v)
  BY <1>3 DEF Promise!Valid, Valid, Promise!PortValid, PortValid, Promise!CountValid, CountValid,
              Promise!RateValid, RateValid
<1>5. ASSUME NEW form, NEW known PROVE Promise!AllValid(form, known) <=> AllValid(form, known)
  BY <1>4 DEF Promise!AllValid, AllValid
<1>6. ASSUME NEW c, NEW form, NEW known PROVE Promise!Merge(c, form, known) = Merge(c, form, known)
  BY <1>1 DEF Promise!Merge, Merge
<1>7. ASSUME NEW c, NEW file, NEW keeps PROVE Promise!Loaded(c, file, keeps) = Loaded(c, file, keeps)
  BY <1>1 DEF Promise!Loaded, Loaded
<1>8. ASSUME NEW c PROVE Promise!Address(c) = Address(c)
  BY DEF Promise!Address, Address
<1> QED
  BY <1>1, <1>2, <1>4, <1>5, <1>6, <1>7, <1>8

\* A step of SetOptions or LoadConfig applies what Configuration allows, or nothing.
LEMMA OptionsPromise ==
  ASSUME LifeInv, OptionsInv, UNCHANGED <<life, bound, kind>>,
         \/ \E c \in Setters : CallSet(c) \/ SetStep(c)
         \/ \E c \in Loaders : CallLoad(c) \/ RefuseLoad(c) \/ Install(c)
  PROVE  [Promise!Next]_Promise!vars
<1>1. UNCHANGED <<AtomicKind, ListensAt>>
  BY DEF AtomicKind, ListensAt, Accepting, life
<1>2. CASE UNCHANGED config
  BY <1>1, <1>2 DEF Promise!vars
<1>3. ASSUME NEW c \in Setters, Apply(c) PROVE Promise!Next
  <2>1. /\ AtomicKind /\ arg[c] \in Forms /\ AllValid(arg[c], ClientFields)
        /\ config' = Merge(config, arg[c], ClientFields)
    BY <1>3 DEF Apply, Ends, Moves, OptionsInv, ArgInv, OptionCalls
  <2>2. Promise!Set(arg[c])
    BY <1>1, <2>1, SameValues DEF Promise!Set
  <2> QED
    BY <1>1, <2>1, <2>2 DEF Promise!Next
<1>4. ASSUME NEW c \in Setters, ApplyField(c) PROVE Promise!Next
  <2>1. PICK f \in todo[c] : Valid(f, arg[c][f]) /\ config' = [config EXCEPT ![f] = arg[c][f]]
    BY <1>4 DEF ApplyField
  <2>2. ~AtomicKind /\ arg[c] \in Forms /\ f \in DOMAIN arg[c]
    BY <1>4 DEF ApplyField, Moves, OptionsInv, ArgInv, TodoInv, OptionCalls
  <2>3. Promise!SetField(arg[c], f)
    BY <1>1, <2>1, <2>2, SameValues DEF Promise!SetField
  <2> QED
    BY <1>1, <2>2, <2>3 DEF Promise!Next
<1>5. ASSUME NEW c \in Loaders, Install(c), ~UNCHANGED config PROVE Promise!Next
  <2>1. /\ AtomicKind => lifeMu = None /\ TunnelStopped
        /\ arg[c] \in Files
        /\ config' = Loaded(config, arg[c], AtomicKind)
    BY <1>5 DEF Install, StillStopped, Ends, Moves, OptionsInv, ArgInv, OptionCalls
  <2>2. AtomicKind => ListensAt = None
    BY <2>1, ListensAtIs DEF LifeInv, StatusInv
  <2>3. Promise!Load(arg[c])
    BY <1>1, <2>1, <2>2, SameValues DEF Promise!Load, AtomicKind
  <2> QED
    BY <1>1, <2>1, <2>3 DEF Promise!Next
<1>6. ASSUME NEW c \in Setters, CallSet(c) \/ Validate(c) \/ RefuseField(c) \/ SetReturns(c)
      PROVE  UNCHANGED config
  BY <1>6 DEF CallSet, Validate, RefuseField, SetReturns
<1>7. ASSUME NEW c \in Loaders, CallLoad(c) \/ RefuseLoad(c) PROVE UNCHANGED config
  BY <1>7 DEF CallLoad, RefuseLoad
<1> QED
  BY <1>2, <1>3, <1>4, <1>5, <1>6, <1>7 DEF SetStep

\* A step of the life cycle begins to listen where the configuration says, ends
\* it, or leaves the address alone.
LEMMA LifePromise ==
  ASSUME LifeInv, LifeInv', OptionsInv, BoundInv, LifeStep, UNCHANGED <<options, kind>>
  PROVE  [Promise!Next]_Promise!vars
<1>1. UNCHANGED <<AtomicKind, config>>
  BY DEF AtomicKind, options
<1>2. \A s \in Starts : Accepting(s)' => ListensAt' = bound'[s]
  <2> SUFFICES ASSUME NEW s \in Starts, Accepting(s)' PROVE ListensAt' = bound'[s]
    OBVIOUS
  <2>1. ASSUME NEW t \in Starts, Accepting(t)' PROVE t = s
    BY <2>1 DEF LifeInv, AloneInv, Accepting, Life!InFlight, Life!Over, Life!Looping
  <2>2. (CHOOSE t \in Starts : Accepting(t)') = s
    BY <2>1
  <2> QED
    BY <2>2 DEF ListensAt
<1>3. (\A s \in Starts : ~Accepting(s)') => ListensAt' = None
  BY DEF ListensAt
<1>4. ASSUME NEW s \in Starts, Bind(s) PROVE Promise!Next
  <2>1. /\ pc[s] = "listen" /\ pc' = [pc EXCEPT ![s] = "setRunning"]
        /\ open' = open \cup {s}
    BY <1>4 DEF Bind, Life!Listen, Life!Goto
  <2>2. ListensAt = None
    <3>1. \A t \in Starts : ~Accepting(t)
      BY <2>1 DEF LifeInv, PlaceInv, AloneInv, Accepting, Life!InFlight, Life!Over, Life!Looping
    <3> QED
      BY <3>1, ListensAtIs
  <2>3. PICK address \in Addresses : /\ bound' = [bound EXCEPT ![s] = address]
                                     /\ address[2] = config["port"]
                                     /\ AtomicKind => address = Address(config)
    BY <1>4, BindAddress
  <2>4. ListensAt' = address
    BY <1>2, <2>1, <2>3 DEF Accepting, OptionsInv, LifeInv, PlaceInv, Life!Calls
  <2>5. PICK interface \in Asked : address = <<interface, config["port"]>>
    BY <2>3 DEF Addresses
  <2>6. Promise!Bind
    BY <1>1, <2>2, <2>3, <2>4, <2>5, SameValues DEF Promise!Bind
  <2> QED
    BY <1>1, <2>6 DEF Promise!Next
<1>5. ASSUME NEW s \in Starts, ReadInterface(s) PROVE UNCHANGED Promise!vars
  <2>1. \A t \in Starts : Accepting(t)' <=> Accepting(t)
    BY <1>5 DEF ReadInterface, life, Accepting
  <2>2. \A t \in Starts : Accepting(t) => bound'[t] = bound[t]
    BY <1>5 DEF ReadInterface, LifeInv, PlaceInv, Accepting
  <2>3. ListensAt' = ListensAt
    BY <1>2, <1>3, <2>1, <2>2, ListensAtIs
  <2> QED
    BY <1>1, <2>3 DEF Promise!vars
<1>6. ASSUME Life!Next, ~Opens, Forget PROVE [Promise!Next]_Promise!vars
  <2>1. CASE \E s \in Starts : Accepting(s)'
    <3>1. PICK s \in Starts : Accepting(s)'
      BY <2>1
    <3>2. Accepting(s) /\ bound'[s] = bound[s]
      BY <1>6, <3>1, AcceptingStays DEF LifeInv, Accepting, Forget
    <3>3. ListensAt' = ListensAt
      BY <1>2, <3>1, <3>2, ListensAtIs
    <3> QED
      BY <1>1, <3>3 DEF Promise!vars
  <2>2. CASE \A s \in Starts : ~Accepting(s)'
    BY <1>1, <1>3, <2>2 DEF Promise!vars, Promise!Next, Promise!Unbind
  <2> QED
    BY <2>1, <2>2
<1> QED
  BY <1>4, <1>5, <1>6 DEF LifeStep

\* tcp_client.go:392-394, 456-459 and options.go:37-39: of the TCP client a form
\* is applied whole or not at all and no file while it listens; every tunnel
\* applies valid values only and begins to listen where its configuration says.
THEOREM OptionsImplementConfiguration ==
  ASSUME Discipline # "overlapping"
  PROVE  Spec => ImplementsConfiguration
<1>1. Init => Promise!Init
  <2> SUFFICES ASSUME Init PROVE Promise!Init
    OBVIOUS
  <2>1. ListensAt = None
    BY DEF Init, Life!Init, ListensAt, Accepting
  <2>2. AtomicKind \in BOOLEAN
    BY DEF AtomicKind
  <2> QED
    BY <2>1, <2>2 DEF Init, Promise!Init
<1>2. LifeInv /\ OptionsInv /\ BoundInv /\ LifeInv' /\ [Next]_vars => [Promise!Next]_Promise!vars
  <2> SUFFICES ASSUME LifeInv, OptionsInv, BoundInv, LifeInv', [Next]_vars
               PROVE  [Promise!Next]_Promise!vars
    OBVIOUS
  <2>1. CASE UNCHANGED vars
    <3>1. UNCHANGED <<kind, config, bound, open, pc>>
      BY <2>1 DEF vars, options, life
    <3> QED
      BY <3>1 DEF Promise!vars, AtomicKind, ListensAt, Accepting
  <2>2. CASE Next
    BY <2>2, OptionsPromise, LifePromise DEF Next
  <2> QED
    BY <2>1, <2>2
<1>3. LifeInv => PlaceInv
  BY DEF LifeInv
<1> QED
  BY <1>1, <1>2, <1>3, OptionsStart, OptionsKeep, LifeKeeps, PTL
  DEF Spec, ImplementsConfiguration, Promise!Spec
=============================================================================
