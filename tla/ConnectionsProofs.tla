-------------------------- MODULE ConnectionsProofs ---------------------------
(***************************************************************************)
(* What holds of the connections of a TCP client tunnel for any finite set *)
(* of connections, any semaphores and any limits, whatever the life cycle  *)
(* does meanwhile.                                                         *)
(***************************************************************************)
EXTENDS Connections, FiniteSetTheorems, TLAPS

\* The life cycle's variables have their types.
IncTypeOK ==
  /\ current \in Ids \cup {None}
  /\ ended \subseteq Ids \cup {None}

\* A CountingConn is closed for the first time when forwarding ends, or after.
OnceInv == \A c \in once : at[c] \in Unwinding \cup {"over"}

CountedConns == {c \in Conns : Counted(c)}

\* Types apart from the gauge, whose type follows from what it counts.
PlacesOK ==
  /\ connSem \in Sems \cup {None}
  /\ made \in SUBSET Sems
  /\ slots \in [Sems -> Nat]
  /\ at \in [Conns -> Places]
  /\ sem \in [Conns -> Sems \cup {None}]
  /\ watched \in [Conns -> Ids \cup {None}]
  /\ once \in SUBSET Conns

ConnInv == IncTypeOK /\ PlacesOK /\ OnceInv

-----------------------------------------------------------------------------
\* What every step does to the slots and to those who hold them: nothing, or one
\* connection takes a slot of its own semaphore, or gives it back there.
LEMMA SlotSteps ==
  ASSUME ConnInv, [ConnNext]_connVars
  PROVE  \/ UNCHANGED slots /\ \A m \in Sems : Holders(m)' = Holders(m)
         \/ \E c \in Conns :
              /\ sem[c] \in Sems /\ Free(sem[c]) /\ c \notin Holders(sem[c])
              /\ slots' = [slots EXCEPT ![sem[c]] = @ + 1]
              /\ \A m \in Sems : Holders(m)' = IF m = sem[c] THEN Holders(m) \cup {c} ELSE Holders(m)
         \/ \E c \in Conns :
              /\ sem[c] \in Sems /\ slots[sem[c]] > 0 /\ c \in Holders(sem[c])
              /\ slots' = [slots EXCEPT ![sem[c]] = @ - 1]
              /\ \A m \in Sems : Holders(m)' = IF m = sem[c] THEN Holders(m) \ {c} ELSE Holders(m)
<1> DEFINE Quiet == UNCHANGED slots /\ \A m \in Sems : Holders(m)' = Holders(m)
<1> USE ConnsAssumption DEF ConnInv, PlacesOK, Places, Waiting, Handling, Unwinding, Move, Holders, Holds, limits, gauges
<1>1. CASE LifecycleStep \/ SetOptions \/ UNCHANGED connVars
  BY <1>1 DEF LifecycleStep, SetOptions, connVars
<1>2. ASSUME NEW c \in Conns, Accept(c) \/ SnapshotConnSem(c) \/ Reject(c) \/ RecordConnection(c) PROVE Quiet
  BY <1>2 DEF Accept, SnapshotConnSem, Reject, RecordConnection
<1>3. ASSUME NEW c \in Conns, ApplyFilter(c) \/ Dial(c) \/ DialError(c) \/ StartWatcher(c) PROVE Quiet
  BY <1>3 DEF ApplyFilter, Dial, DialError, StartWatcher
<1>4. ASSUME NEW c \in Conns, Cancel(c) \/ PeerCloses(c) \/ Disconnect(c) PROVE Quiet
  BY <1>4 DEF Cancel, PeerCloses, ForwardEnds, Disconnect
<1>5. ASSUME NEW c \in Conns, Acquire(c)
      PROVE  \/ Quiet
             \/ /\ sem[c] \in Sems /\ Free(sem[c]) /\ c \notin Holders(sem[c])
                /\ slots' = [slots EXCEPT ![sem[c]] = @ + 1]
                /\ \A m \in Sems : Holders(m)' = IF m = sem[c] THEN Holders(m) \cup {c} ELSE Holders(m)
  BY <1>5 DEF Acquire
<1>6. ASSUME NEW c \in Conns, GiveBack(c)
      PROVE  \/ Quiet
             \/ /\ sem[c] \in Sems /\ slots[sem[c]] > 0 /\ c \in Holders(sem[c])
                /\ slots' = [slots EXCEPT ![sem[c]] = @ - 1]
                /\ \A m \in Sems : Holders(m)' = IF m = sem[c] THEN Holders(m) \ {c} ELSE Holders(m)
  BY <1>6 DEF GiveBack, OwnSlot
<1> QED
  BY <1>1, <1>2, <1>3, <1>4, <1>5, <1>6 DEF ConnNext, ConnStep

\* What every step does to the gauge and to the connections it counts: nothing, or
\* one connection comes to be counted, or is counted no more.
LEMMA GaugeSteps ==
  ASSUME ConnInv, [ConnNext]_connVars
  PROVE  \/ UNCHANGED active /\ CountedConns' = CountedConns
         \/ \E c \in Conns : /\ c \notin CountedConns /\ CountedConns' = CountedConns \cup {c}
                             /\ active' = active + 1
         \/ \E c \in Conns : /\ c \in CountedConns /\ CountedConns' = CountedConns \ {c}
                             /\ active' = active - 1
<1> DEFINE Quiet == UNCHANGED active /\ CountedConns' = CountedConns
<1> DEFINE Down(c) == /\ c \in CountedConns /\ CountedConns' = CountedConns \ {c}
                      /\ active' = active - 1
<1> USE DEF ConnInv, PlacesOK, OnceInv, Places, Waiting, Handling, Unwinding, Move, CountedConns, Counted,
            limits, gauges
<1>1. CASE LifecycleStep \/ SetOptions \/ UNCHANGED connVars
  BY <1>1 DEF LifecycleStep, SetOptions, connVars
<1>2. ASSUME NEW c \in Conns, Accept(c) \/ SnapshotConnSem(c) \/ Acquire(c) \/ Reject(c) \/ GiveBack(c)
      PROVE  Quiet
  BY <1>2 DEF Accept, SnapshotConnSem, Acquire, Reject, GiveBack
<1>3. ASSUME NEW c \in Conns, ApplyFilter(c) \/ Dial(c) \/ DialError(c) \/ StartWatcher(c) PROVE Quiet
  BY <1>3 DEF ApplyFilter, Dial, DialError, StartWatcher
<1>4. ASSUME NEW c \in Conns, RecordConnection(c)
      PROVE  /\ c \notin CountedConns /\ CountedConns' = CountedConns \cup {c}
             /\ active' = active + 1
  BY <1>4 DEF RecordConnection
<1>5. ASSUME NEW c \in Conns, Cancel(c) \/ PeerCloses(c) PROVE Quiet \/ Down(c)
  BY <1>5 DEF Cancel, PeerCloses, ForwardEnds, CloseConn
<1>6. ASSUME NEW c \in Conns, Disconnect(c) PROVE Quiet \/ Down(c)
  BY <1>6 DEF Disconnect, CloseConn
<1> QED
  BY <1>1, <1>2, <1>3, <1>4, <1>5, <1>6 DEF ConnNext, ConnStep

-----------------------------------------------------------------------------
\* Every variable but the gauge has its type, and no connection is remembered as
\* closed before its forward has ended.
THEOREM PlacesCorrect == ConnSpec => []ConnInv
<1> USE DEF ConnInv, IncTypeOK, PlacesOK, OnceInv, Places, Waiting, Handling, Unwinding
<1>1. ConnInit => ConnInv
  BY ConnsAssumption DEF ConnInit, Init
<1>2. ConnInv /\ [ConnNext]_connVars => ConnInv'
  <2> SUFFICES ASSUME ConnInv, [ConnNext]_connVars PROVE ConnInv'
    OBVIOUS
  <2> USE ConnsAssumption DEF Move, lifecycle, limits, gauges
  <2>1. CASE LifecycleStep
    BY <2>1 DEF LifecycleStep, Begin, Bind, Halt, Unbind
  <2>2. CASE SetOptions \/ UNCHANGED connVars
    BY <2>2 DEF SetOptions, connVars
  <2>3. ASSUME NEW c \in Conns, Accept(c) \/ SnapshotConnSem(c) \/ Reject(c) PROVE ConnInv'
    BY <2>3 DEF Accept, SnapshotConnSem, Reject
  <2>4. ASSUME NEW c \in Conns, Acquire(c) PROVE ConnInv'
    BY <2>4 DEF Acquire
  <2>5. ASSUME NEW c \in Conns, RecordConnection(c) \/ ApplyFilter(c) PROVE ConnInv'
    BY <2>5 DEF RecordConnection, ApplyFilter
  <2>6. ASSUME NEW c \in Conns, Dial(c) \/ DialError(c) \/ StartWatcher(c) PROVE ConnInv'
    BY <2>6 DEF Dial, DialError, StartWatcher, Watched
  <2>7. ASSUME NEW c \in Conns, Cancel(c) \/ PeerCloses(c) PROVE ConnInv'
    BY <2>7 DEF Cancel, PeerCloses, ForwardEnds, CloseConn
  <2>8. ASSUME NEW c \in Conns, Disconnect(c) PROVE ConnInv'
    BY <2>8 DEF Disconnect, CloseConn
  <2>9. ASSUME NEW c \in Conns, GiveBack(c) PROVE ConnInv'
    BY <2>9 DEF GiveBack, OwnSlot
  <2> QED
    BY <2>1, <2>2, <2>3, <2>4, <2>5, <2>6, <2>7, <2>8, <2>9 DEF ConnNext, ConnStep
<1> QED
  BY <1>1, <1>2, PTL DEF ConnSpec

-----------------------------------------------------------------------------
\* tcp_client.go:71-75: however many connections come and whenever SetOptions
\* replaces the semaphore, the slots taken of a semaphore are those of the
\* connections that hold one, so the receive that gives a slot back never blocks,
\* and never are more held than the semaphore's maxconns.
THEOREM SlotsCorrect == ConnSpec => []SlotsMatchHolders
<1>1. ConnInit => SlotsMatchHolders
  <2> SUFFICES ASSUME ConnInit, NEW m \in Sems PROVE slots[m] = Cardinality(Holders(m)) /\ slots[m] <= Capacity[m]
    BY DEF SlotsMatchHolders
  <2>1. Holders(m) = {} /\ slots[m] = 0
    BY DEF ConnInit, Holders, Holds, Handling, Unwinding
  <2> QED
    BY <2>1, FS_EmptySet, CapacityAssumption
<1>2. ConnInv /\ SlotsMatchHolders /\ [ConnNext]_connVars => SlotsMatchHolders'
  <2> SUFFICES ASSUME ConnInv, SlotsMatchHolders, [ConnNext]_connVars, NEW m \in Sems
               PROVE  slots'[m] = Cardinality(Holders(m)') /\ slots'[m] <= Capacity[m]
    BY DEF SlotsMatchHolders
  <2>1. /\ IsFiniteSet(Holders(m)) /\ slots \in [Sems -> Nat] /\ Capacity[m] \in Nat
        /\ slots[m] = Cardinality(Holders(m)) /\ slots[m] <= Capacity[m]
    BY FS_Subset, ConnsAssumption, CapacityAssumption DEF ConnInv, PlacesOK, SlotsMatchHolders, Holders
  <2>2. CASE UNCHANGED slots /\ Holders(m)' = Holders(m)
    BY <2>1, <2>2
  <2>3. ASSUME NEW c \in Conns, Free(m), c \notin Holders(m),
               slots' = [slots EXCEPT ![m] = @ + 1], Holders(m)' = Holders(m) \cup {c}
        PROVE  slots'[m] = Cardinality(Holders(m)') /\ slots'[m] <= Capacity[m]
    <3>1. Cardinality(Holders(m) \cup {c}) = Cardinality(Holders(m)) + 1
      BY <2>1, <2>3, FS_AddElement
    <3>2. slots'[m] = slots[m] + 1 /\ slots[m] < Capacity[m]
      BY <2>1, <2>3 DEF Free
    <3> QED
      BY <2>1, <2>3, <3>1, <3>2
  <2>4. ASSUME NEW c \in Conns, c \in Holders(m),
               slots' = [slots EXCEPT ![m] = @ - 1], Holders(m)' = Holders(m) \ {c}
        PROVE  slots'[m] = Cardinality(Holders(m)') /\ slots'[m] <= Capacity[m]
    <3>1. Cardinality(Holders(m) \ {c}) = Cardinality(Holders(m)) - 1
      BY <2>1, <2>4, FS_RemoveElement
    <3>2. slots'[m] = slots[m] - 1
      BY <2>1, <2>4
    <3> QED
      BY <2>1, <2>4, <3>1, <3>2
  <2>5. \A k \in Sems :
          k # m /\ slots' \in {[slots EXCEPT ![k] = @ + 1], [slots EXCEPT ![k] = @ - 1]}
            => slots'[m] = slots[m]
    BY <2>1
  <2>6. \/ slots'[m] = slots[m] /\ Holders(m)' = Holders(m)
        \/ \E c \in Conns : /\ Free(m) /\ c \notin Holders(m)
                            /\ slots' = [slots EXCEPT ![m] = @ + 1] /\ Holders(m)' = Holders(m) \cup {c}
        \/ \E c \in Conns : /\ c \in Holders(m)
                            /\ slots' = [slots EXCEPT ![m] = @ - 1] /\ Holders(m)' = Holders(m) \ {c}
    BY <2>5, SlotSteps
  <2> QED
    BY <2>1, <2>3, <2>4, <2>6
<1> QED
  BY <1>1, <1>2, PlacesCorrect, PTL DEF ConnSpec

\* The receive <-sem, by which a connection gives its slot back, does not block.
GiveBackReady == \A c \in Conns : at[c] = "giveBack" /\ sem[c] # None => slots[sem[c]] > 0

\* tcp_client.go:71-75: no connection waits for ever at its end for a slot to give back.
THEOREM GiveBackReadyCorrect == ConnSpec => []GiveBackReady
<1>1. ConnInv /\ SlotsMatchHolders => GiveBackReady
  <2> SUFFICES ASSUME ConnInv, SlotsMatchHolders, NEW c \in Conns, at[c] = "giveBack", sem[c] # None
               PROVE  slots[sem[c]] > 0
    BY DEF GiveBackReady
  <2>1. sem[c] \in Sems /\ c \in Holders(sem[c]) /\ slots[sem[c]] \in Nat
    BY DEF ConnInv, PlacesOK, Holders, Holds, Unwinding
  <2>2. IsFiniteSet(Holders(sem[c]))
    BY FS_Subset, ConnsAssumption DEF Holders
  <2>3. Cardinality(Holders(sem[c])) # 0
    BY <2>1, <2>2, FS_EmptySet
  <2> QED
    BY <2>1, <2>3 DEF SlotsMatchHolders
<1> QED
  BY <1>1, PlacesCorrect, SlotsCorrect, PTL

\* Metrics.ActiveConnections counts exactly the connections that are recorded and
\* not yet closed, however often a CountingConn is closed; in particular it is
\* never negative.
THEOREM GaugeCorrect == ConnSpec => []GaugeMatches
<1>1. ConnInit => GaugeMatches
  <2> SUFFICES ASSUME ConnInit PROVE active = Cardinality(CountedConns)
    BY DEF GaugeMatches, CountedConns
  <2>1. CountedConns = {} /\ active = 0
    BY DEF ConnInit, CountedConns, Counted
  <2> QED
    BY <2>1, FS_EmptySet
<1>2. ConnInv /\ GaugeMatches /\ [ConnNext]_connVars => GaugeMatches'
  <2> SUFFICES ASSUME ConnInv, active = Cardinality(CountedConns), [ConnNext]_connVars
               PROVE  active' = Cardinality(CountedConns')
    BY DEF GaugeMatches, CountedConns
  <2>1. IsFiniteSet(CountedConns)
    BY FS_Subset, ConnsAssumption DEF CountedConns
  <2>2. ASSUME NEW c \in Conns, c \notin CountedConns, CountedConns' = CountedConns \cup {c}, active' = active + 1
        PROVE  active' = Cardinality(CountedConns')
    BY <2>1, <2>2, FS_AddElement
  <2>3. ASSUME NEW c \in Conns, c \in CountedConns, CountedConns' = CountedConns \ {c}, active' = active - 1
        PROVE  active' = Cardinality(CountedConns')
    BY <2>1, <2>3, FS_RemoveElement
  <2> QED
    BY <2>2, <2>3, GaugeSteps
<1> QED
  BY <1>1, <1>2, PlacesCorrect, PTL DEF ConnSpec

\* Every variable has its type; the gauge is a number because it counts something.
THEOREM ConnTypeCorrect == ConnSpec => []ConnTypeOK
<1>1. ConnInv /\ GaugeMatches => ConnTypeOK
  <2> SUFFICES ASSUME ConnInv, active = Cardinality(CountedConns) PROVE active \in Nat
    BY DEF ConnInv, PlacesOK, ConnTypeOK, GaugeMatches, CountedConns
  <2>1. IsFiniteSet(CountedConns)
    BY FS_Subset, ConnsAssumption DEF CountedConns
  <2> QED
    BY <2>1, FS_CardinalityType
<1> QED
  BY <1>1, PlacesCorrect, GaugeCorrect, PTL

-----------------------------------------------------------------------------
(***************************************************************************)
(* The SOCKS5 proxy admits its connections by the same semaphore, but      *)
(* reads the field connSem again for each access.  SocksSlots.cfg finds    *)
(* that a SetOptions between two reads loses a slot; what follows shows    *)
(* that nothing else does.  The variables have the names of Connections.   *)
(***************************************************************************)
VARIABLE took    \* the semaphore each connection of the proxy took its slot of

Socks == INSTANCE SocksAdmission

\* The connections of the proxy that have taken a slot of m and are still handled.
Takers(m) == {c \in Conns : took[c] = m /\ at[c] # "over"}

\* While the field stays as it is, every read of it finds the same semaphore: the one a
\* slot was taken of, and none where none was.
SocksInv ==
  /\ connSem \in Sems \cup {None}
  /\ slots \in [Sems -> Nat]
  /\ at \in [Conns -> Socks!Places]
  /\ took \in [Conns -> Sems \cup {None}]
  /\ \A c \in Conns :
       /\ took[c] # None => took[c] = connSem /\ at[c] \in {"defer", "forward", "giveBack", "over"}
       /\ at[c] \in {"defer", "forward", "giveBack"} => took[c] = connSem
       /\ at[c] \in {"send", "forward", "giveBack"} => connSem # None
       /\ at[c] = "forwardFree" => connSem = None

\* A slot that is given back is there, so no TCPHandle blocks at its end, and no more
\* connections than maxconns are handled at a time.
SocksReady ==
  /\ \A c \in Conns : at[c] = "giveBack" => connSem # None /\ slots[connSem] > 0
  /\ \A m \in Sems : slots[m] <= Capacity[m]

\* What a step does to the slots and to those who have taken them.
LEMMA SocksSteps ==
  ASSUME SocksInv, [Socks!Next]_(Socks!vars), UNCHANGED connSem
  PROVE  /\ SocksInv'
         /\ \/ UNCHANGED slots /\ \A m \in Sems : Takers(m)' = Takers(m)
            \/ \E c \in Conns :
                 /\ connSem \in Sems /\ slots[connSem] < Capacity[connSem] /\ c \notin Takers(connSem)
                 /\ slots' = [slots EXCEPT ![connSem] = @ + 1]
                 /\ \A m \in Sems : Takers(m)' = IF m = connSem THEN Takers(m) \cup {c} ELSE Takers(m)
            \/ \E c \in Conns :
                 /\ connSem \in Sems /\ c \in Takers(connSem)
                 /\ slots' = [slots EXCEPT ![connSem] = @ - 1]
                 /\ \A m \in Sems : Takers(m)' = IF m = connSem THEN Takers(m) \ {c} ELSE Takers(m)
<1> DEFINE Quiet == UNCHANGED slots /\ \A m \in Sems : Takers(m)' = Takers(m)
<1> USE ConnsAssumption DEF SocksInv, Takers, Socks!Places, Socks!Move, Socks!limits
<1>1. CASE Socks!SetOptions \/ UNCHANGED Socks!vars
  <2>1. UNCHANGED <<slots, at, took>>
    BY <1>1 DEF Socks!SetOptions, Socks!vars
  <2> QED
    BY <2>1
<1>2. ASSUME NEW c \in Conns, Socks!Connect(c) \/ Socks!CheckRateLimit(c) \/ Socks!CheckSem(c)
      PROVE  SocksInv' /\ Quiet
  BY <1>2 DEF Socks!Connect, Socks!CheckRateLimit, Socks!CheckSem
<1>3. ASSUME NEW c \in Conns, Socks!Refuse(c) \/ Socks!Defer(c) \/ Socks!Finish(c) PROVE SocksInv' /\ Quiet
  BY <1>3 DEF Socks!Refuse, Socks!Defer, Socks!Finish
<1>4. ASSUME NEW c \in Conns, Socks!Send(c)
      PROVE  /\ SocksInv'
             /\ connSem \in Sems /\ slots[connSem] < Capacity[connSem] /\ c \notin Takers(connSem)
             /\ slots' = [slots EXCEPT ![connSem] = @ + 1]
             /\ \A m \in Sems : Takers(m)' = IF m = connSem THEN Takers(m) \cup {c} ELSE Takers(m)
  BY <1>4 DEF Socks!Send, Socks!SendReady
<1>5. ASSUME NEW c \in Conns, Socks!GiveBack(c)
      PROVE  /\ SocksInv'
             /\ connSem \in Sems /\ c \in Takers(connSem)
             /\ slots' = [slots EXCEPT ![connSem] = @ - 1]
             /\ \A m \in Sems : Takers(m)' = IF m = connSem THEN Takers(m) \ {c} ELSE Takers(m)
  BY <1>5 DEF Socks!GiveBack
<1> QED
  BY <1>1, <1>2, <1>3, <1>4, <1>5 DEF Socks!Next, Socks!ConnStep

\* As long as SetOptions does not replace s.connSem, every connection of the SOCKS proxy
\* gives its slot back, and the receive that does so does not block (handle.go:44-46):
\* the leak that SocksSlots.cfg finds needs a SetOptions among the reads of one connection.
THEOREM SocksSlotsCorrect ==
  Socks!Spec /\ [][FALSE]_connSem => [](Socks!SlotReleased /\ SocksReady)
<1> DEFINE Match == /\ \A m \in Sems : slots[m] = Cardinality(Takers(m))
                    /\ \A m \in Sems : slots[m] <= Capacity[m]
<1>1. Socks!Init => SocksInv /\ Match
  <2> SUFFICES ASSUME Socks!Init PROVE SocksInv /\ Match
    OBVIOUS
  <2>1. SocksInv
    BY ConnsAssumption DEF Socks!Init, SocksInv, Socks!Places
  <2>2. \A m \in Sems : Takers(m) = {} /\ slots[m] = 0
    BY ConnsAssumption DEF Socks!Init, Takers
  <2> QED
    BY <2>1, <2>2, FS_EmptySet, CapacityAssumption
<1>2. SocksInv /\ Match /\ [Socks!Next]_(Socks!vars) /\ [FALSE]_connSem => (SocksInv /\ Match)'
  <2> SUFFICES ASSUME SocksInv, Match, [Socks!Next]_(Socks!vars), UNCHANGED connSem, NEW m \in Sems
               PROVE  SocksInv' /\ slots'[m] = Cardinality(Takers(m)') /\ slots'[m] <= Capacity[m]
    BY SocksSteps
  <2>1. /\ IsFiniteSet(Takers(m)) /\ slots \in [Sems -> Nat] /\ Capacity[m] \in Nat
        /\ slots[m] = Cardinality(Takers(m)) /\ slots[m] <= Capacity[m]
    BY FS_Subset, ConnsAssumption, CapacityAssumption DEF SocksInv, Takers
  <2>2. ASSUME NEW c \in Conns, m = connSem, slots[m] < Capacity[m], c \notin Takers(m),
               slots' = [slots EXCEPT ![m] = @ + 1], Takers(m)' = Takers(m) \cup {c}
        PROVE  slots'[m] = Cardinality(Takers(m)') /\ slots'[m] <= Capacity[m]
    <3>1. Cardinality(Takers(m) \cup {c}) = Cardinality(Takers(m)) + 1
      BY <2>1, <2>2, FS_AddElement
    <3> QED
      BY <2>1, <2>2, <3>1
  <2>3. ASSUME NEW c \in Conns, m = connSem, c \in Takers(m),
               slots' = [slots EXCEPT ![m] = @ - 1], Takers(m)' = Takers(m) \ {c}
        PROVE  slots'[m] = Cardinality(Takers(m)') /\ slots'[m] <= Capacity[m]
    <3>1. Cardinality(Takers(m) \ {c}) = Cardinality(Takers(m)) - 1
      BY <2>1, <2>3, FS_RemoveElement
    <3>2. slots'[m] = slots[m] - 1
      BY <2>1, <2>3
    <3> QED
      BY <2>1, <2>3, <3>1, <3>2
  <2>4. m # connSem /\ connSem \in Sems
          /\ slots' \in {[slots EXCEPT ![connSem] = @ + 1], [slots EXCEPT ![connSem] = @ - 1]}
          => slots'[m] = slots[m]
    BY <2>1
  <2>5. \/ slots'[m] = slots[m] /\ Takers(m)' = Takers(m)
        \/ \E c \in Conns : /\ m = connSem /\ slots[m] < Capacity[m] /\ c \notin Takers(m)
                            /\ slots' = [slots EXCEPT ![m] = @ + 1] /\ Takers(m)' = Takers(m) \cup {c}
        \/ \E c \in Conns : /\ m = connSem /\ c \in Takers(m)
                            /\ slots' = [slots EXCEPT ![m] = @ - 1] /\ Takers(m)' = Takers(m) \ {c}
    BY <2>4, SocksSteps
  <2> QED
    BY <2>1, <2>2, <2>3, <2>5, SocksSteps
<1>3. SocksInv /\ Match => Socks!SlotReleased /\ SocksReady
  <2> SUFFICES ASSUME SocksInv, Match PROVE Socks!SlotReleased /\ SocksReady
    OBVIOUS
  <2>0. \A m \in Sems : Socks!Cardinality(Takers(m)) = Cardinality(Takers(m))
    BY DEF Socks!Cardinality, Cardinality
  <2>1. Socks!SlotReleased
    BY <2>0 DEF Socks!SlotReleased, Takers
  <2>2. ASSUME NEW c \in Conns, at[c] = "giveBack" PROVE connSem # None /\ slots[connSem] > 0
    <3>1. connSem \in Sems /\ c \in Takers(connSem)
      BY <2>2 DEF SocksInv, Takers
    <3>2. IsFiniteSet(Takers(connSem))
      BY FS_Subset, ConnsAssumption DEF Takers
    <3>3. Cardinality(Takers(connSem)) # 0 /\ slots[connSem] \in Nat
      BY <3>1, <3>2, FS_EmptySet DEF SocksInv
    <3> QED
      BY <3>1, <3>3, ConnsAssumption
  <2> QED
    BY <2>1, <2>2 DEF SocksReady
<1> QED
  BY <1>1, <1>2, <1>3, PTL DEF Socks!Spec
=============================================================================
