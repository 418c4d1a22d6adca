----------------------------- MODULE Connections -----------------------------
(***************************************************************************)
(* The connections of a TCP client tunnel (lib/tcp/client/tcp_client.go):  *)
(* each accepted connection runs spawnConnection and handleConnection in a *)
(* goroutine of its own, takes a slot of the semaphore that limits         *)
(* concurrent connections, dials I2P and forwards until a peer closes or   *)
(* the tunnel is stopped.  SetOptions replaces the semaphore at any time.  *)
(*                                                                         *)
(* The life cycle is the contract of Incarnations, which TunnelLifecycle   *)
(* implements: `current' is the channel t.done and `ended' the closed ones.*)
(***************************************************************************)
EXTENDS Incarnations, FiniteSets, Naturals

CONSTANTS
  Conns,      \* the connections clients may open
  Sems,       \* the semaphores SetOptions may make
  Capacity    \* the maxconns each of them is made with

ASSUME CapacityAssumption == Capacity \in [Sems -> Nat \ {0}]

ASSUME ConnsAssumption == IsFiniteSet(Conns) /\ None \notin Sems

VARIABLES
  connSem,    \* t.connSem, or None when connections are unlimited
  made,       \* the semaphores made so far
  slots,      \* how many slots of each semaphore are taken: len(sem)
  at,         \* where the goroutine of each connection stands
  sem,        \* the semaphore each connection has snapshot, or None
  once,       \* the connections whose CountingConn has been closed
  watched,    \* the done channel the watcher of each forward has read
  active      \* Metrics.ActiveConnections

lifecycle == <<current, stopped, ended, accepting>>
limits == <<connSem, made, slots>>
gauges == <<active, once>>
connVars == <<lifecycle, limits, gauges, at, sem, watched>>

\* Where a goroutine may stand: before a slot is taken, in handleConnection, unwinding.
Waiting == {"spawned", "snapshot"}
Handling == {"record", "filter", "dial", "watch", "forward"}
Unwinding == {"disconnect", "giveBack"}
Places == {"idle", "over"} \cup Waiting \cup Handling \cup Unwinding

Move(c, from, to) == at[c] = from /\ at' = [at EXCEPT ![c] = to]

\* c has a slot of m, and has not given it back.
Holds(c, m) == sem[c] = m /\ at[c] \in Handling \cup Unwinding
Holders(m) == {c \in Conns : Holds(c, m)}

\* c has been counted by RecordConnection and not yet by RecordDisconnection.
Counted(c) == at[c] \in {"filter", "dial", "watch", "forward", "disconnect"} /\ c \notin once

-----------------------------------------------------------------------------
ConnInit ==
  /\ Init
  /\ connSem = None
  /\ made = {}
  /\ slots = [m \in Sems |-> 0]
  /\ at = [c \in Conns |-> "idle"]
  /\ sem = [c \in Conns |-> None]
  /\ watched = [c \in Conns |-> None]
  /\ active = 0
  /\ once = {}

\* SetOptions makes a new semaphore when maxconns is positive, and drops it otherwise.
SetOptions ==
  /\ \/ \E m \in Sems \ made : connSem' = m /\ made' = made \cup {m}
     \/ connSem' = None /\ UNCHANGED made
  /\ UNCHANGED <<lifecycle, slots, gauges, at, sem, watched>>

\* The accept loop hands a connection to a new goroutine.
Accept(c) ==
  /\ accepting # None
  /\ Move(c, "idle", "spawned")
  /\ UNCHANGED <<lifecycle, limits, gauges, sem, watched>>

SnapshotConnSem(c) ==
  /\ Move(c, "spawned", "snapshot")
  /\ sem' = [sem EXCEPT ![c] = connSem]
  /\ UNCHANGED <<lifecycle, limits, gauges, watched>>

\* A send on the buffered channel does not block.
Free(m) == slots[m] < Capacity[m]

\* case sem <- struct{}{}: a slot is taken; with no semaphore there is nothing to take.
Acquire(c) ==
  /\ Move(c, "snapshot", "record")
  /\ \/ sem[c] = None /\ UNCHANGED slots
     \/ /\ sem[c] # None
        /\ Free(sem[c])
        /\ slots' = [slots EXCEPT ![sem[c]] = @ + 1]
  /\ UNCHANGED <<lifecycle, connSem, made, gauges, sem, watched>>

\* default: the connection is refused and closed.
Reject(c) ==
  /\ sem[c] # None
  /\ ~Free(sem[c])
  /\ Move(c, "snapshot", "over")
  /\ sem' = [sem EXCEPT ![c] = None]
  /\ UNCHANGED <<lifecycle, limits, gauges, watched>>

-----------------------------------------------------------------------------
RecordConnection(c) ==
  /\ Move(c, "record", "filter")
  /\ active' = active + 1
  /\ UNCHANGED <<lifecycle, limits, once, sem, watched>>

ApplyFilter(c) ==
  /\ \/ Move(c, "filter", "dial") 
     \/ Move(c, "filter", "disconnect")
  /\ UNCHANGED <<lifecycle, limits, gauges, sem, watched>>

\* Slip: the error return skips the deferred close of the wrapped connection.
DialErrorSlip(c) ==
  /\ Move(c, "dial", "giveBack")
  /\ UNCHANGED <<lifecycle, limits, gauges, sem, watched>>
DialError(c) ==
  /\ Move(c, "dial", "disconnect")
  /\ UNCHANGED <<lifecycle, limits, gauges, sem, watched>>

Dial(c) ==
  /\ Move(c, "dial", "watch")
  /\ UNCHANGED <<lifecycle, limits, gauges, sem, watched>>

\* Slip: the watcher reads the channel of no incarnation.
WatchedSlip == None
\* t.done, read without lifeMu when the watcher starts.
Watched == current

StartWatcher(c) ==
  /\ Move(c, "watch", "forward")
  /\ watched' = [watched EXCEPT ![c] = Watched]
  /\ UNCHANGED <<lifecycle, limits, gauges, sem>>

\* Slip: the connection is not remembered as closed.
CloseConnSlip(c) == active' = active - 1 /\ UNCHANGED once
\* CountingConn.Close: the disconnection is recorded at most once.
CloseConn(c) ==
  \/ c \in once /\ UNCHANGED <<active, once>>
  \/ c \notin once /\ active' = active - 1 /\ once' = once \cup {c}

\* stream.Forward returns, and may have closed the wrapped connection itself.
ForwardEnds(c) ==
  /\ Move(c, "forward", "disconnect")
  /\ CloseConn(c) \/ UNCHANGED <<active, once>>
  /\ UNCHANGED <<lifecycle, limits, sem, watched>>

\* The watcher sees the channel closed and cancels the forward.
Cancel(c) == watched[c] \in ended /\ ForwardEnds(c)

\* One of the peers closes, or the stream breaks.
PeerCloses(c) == watched[c] \notin ended /\ ForwardEnds(c)

\* The deferred wrapped.Close().
Disconnect(c) ==
  /\ Move(c, "disconnect", "giveBack")
  /\ CloseConn(c)
  /\ UNCHANGED <<lifecycle, limits, sem, watched>>

\* Slip: the slot is given back to the semaphore in force, not to the one it came from.
OwnSlotSlip(c) == connSem
\* defer func() { <-sem }(), the semaphore of the snapshot.
OwnSlot(c) == sem[c]

\* Receiving a slot back would block on an empty channel.
GiveBack(c) ==
  /\ Move(c, "giveBack", "over")
  /\ sem' = [sem EXCEPT ![c] = None]
  /\ watched' = [watched EXCEPT ![c] = None]
  /\ \/ OwnSlot(c) = None /\ UNCHANGED slots
     \/ /\ OwnSlot(c) # None
        /\ slots[OwnSlot(c)] > 0
        /\ slots' = [slots EXCEPT ![OwnSlot(c)] = @ - 1]
  /\ UNCHANGED <<lifecycle, connSem, made, gauges>>

-----------------------------------------------------------------------------
\* What the goroutine of a connection does by itself; a dial ends by its timeout.
ConnStep(c) ==
  \/ SnapshotConnSem(c) \/ Acquire(c) \/ Reject(c) \/ RecordConnection(c) \/ ApplyFilter(c)
  \/ Dial(c) \/ DialError(c) \/ StartWatcher(c) \/ Cancel(c) \/ Disconnect(c) \/ GiveBack(c)

\* The life cycle moves without touching the connections.
LifecycleStep ==
  /\ (\E i \in Ids : Begin(i)) \/ Bind \/ Halt \/ Unbind
  /\ UNCHANGED <<limits, gauges, at, sem, watched>>

ConnNext ==
  \/ LifecycleStep
  \/ SetOptions
  \/ \E c \in Conns : Accept(c) \/ ConnStep(c) \/ PeerCloses(c)

ConnSpec == ConnInit /\ [][ConnNext]_connVars

\* Goroutines that are not blocked run; peers and operators owe nothing.
ConnFairSpec == ConnSpec /\ \A c \in Conns : WF_connVars(ConnStep(c))

-----------------------------------------------------------------------------
\* Every variable has its type.
ConnTypeOK ==
  /\ connSem \in Sems \cup {None}
  /\ made \in SUBSET Sems
  /\ slots \in [Sems -> Nat]
  /\ at \in [Conns -> Places]
  /\ sem \in [Conns -> Sems \cup {None}]
  /\ watched \in [Conns -> Ids \cup {None}]
  /\ once \in SUBSET Conns
  /\ active \in Nat

\* tcp_client.go:71-75: however SetOptions replaces the semaphore meanwhile, the
\* slots taken of each semaphore are those of the connections that hold one, and no
\* more connections than its maxconns hold one.
SlotsMatchHolders ==
  \A m \in Sems : slots[m] = Cardinality(Holders(m)) /\ slots[m] <= Capacity[m]

\* ActiveConnections counts the connections between RecordConnection and the
\* close of their CountingConn, however often that is closed.
GaugeMatches == active = Cardinality({c \in Conns : Counted(c)})

\* Once the tunnel has been stopped, every connection in flight comes to an end,
\* unless the tunnel is started again: a forward that begins late sees the
\* closed channel too (forwardStream: "cancelling on tunnel stop").  Excepted is
\* a forward whose channel an overlapping Start has replaced before any Stop.
StopEndsConnections ==
  \A c \in Conns :
    stopped /\ at[c] # "idle" /\ watched[c] \in ended \cup {None}
      ~> ~stopped \/ at[c] = "over"
=============================================================================
