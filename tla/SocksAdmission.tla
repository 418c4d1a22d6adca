---------------------------- MODULE SocksAdmission ----------------------------
(***************************************************************************)
(* Admission of connections to the SOCKS5 proxy (lib/socks/client): every  *)
(* TCPHandle goroutine takes a slot of s.connSem and gives it back when it *)
(* returns.  Unlike the TCP client (module Connections), each access reads *)
(* the field s.connSem again, and SetOptions replaces it without a lock.   *)
(***************************************************************************)
EXTENDS Naturals, FiniteSets

CONSTANTS
  Conns,      \* the connections clients may open
  Sems,       \* the semaphores NewSocksClient and SetOptions may make
  None,       \* no semaphore (not one of Sems): connections are unlimited
  Capacity    \* the positive maxconns each of them is made with

VARIABLES
  connSem,    \* s.connSem
  made,       \* the semaphores made so far
  slots,      \* len of each semaphore
  at,         \* where the TCPHandle of each connection stands
  took        \* the semaphore each connection took its slot of, or None

limits == <<connSem, made, slots>>
vars == <<limits, at, took>>

Places == {"idle", "limitRate", "checkSem", "send", "defer", "forward", "forwardFree",
           "giveBack", "over"}

Move(c, from, to) == at[c] = from /\ at' = [at EXCEPT ![c] = to]

\* NewSocksClient: maxconns of the configuration, 0 meaning no semaphore.
Init ==
  /\ \E m \in Sems \cup {None} : connSem = m /\ made = {m} \ {None}
  /\ slots = [m \in Sems |-> 0]
  /\ at = [c \in Conns |-> "idle"]
  /\ took = [c \in Conns |-> None]

SetOptions ==
  /\ \/ \E m \in Sems \ made : connSem' = m /\ made' = made \cup {m}
     \/ connSem' = None /\ UNCHANGED made
  /\ UNCHANGED <<slots, at, took>>

Connect(c) == Move(c, "idle", "limitRate") /\ UNCHANGED <<limits, took>>

\* checkRateLimit admits or refuses.
CheckRateLimit(c) ==
  /\ Move(c, "limitRate", "checkSem") \/ Move(c, "limitRate", "over")
  /\ UNCHANGED <<limits, took>>

\* checkConcurrencyLimit: if s.connSem != nil ...
CheckSem(c) ==
  /\ Move(c, "checkSem", IF connSem = None THEN "defer" ELSE "send")
  /\ UNCHANGED <<limits, took>>

\* A send on s.connSem is ready: never on a nil channel.
SendReady == connSem # None /\ slots[connSem] < Capacity[connSem]

\* ... select { case s.connSem <- struct{}{}:
Send(c) ==
  /\ SendReady
  /\ Move(c, "send", "defer")
  /\ slots' = [slots EXCEPT ![connSem] = @ + 1]
  /\ took' = [took EXCEPT ![c] = connSem]
  /\ UNCHANGED <<connSem, made>>

\* default: the limit is reached.
Refuse(c) ==
  /\ ~SendReady
  /\ Move(c, "send", "over")
  /\ UNCHANGED <<limits, took>>

\* TCPHandle: if s.connSem != nil, the release is deferred.
Defer(c) ==
  /\ Move(c, "defer", IF connSem = None THEN "forwardFree" ELSE "forward")
  /\ UNCHANGED <<limits, took>>

\* The forward ends, or the dial failed; what was deferred is next.
Finish(c) ==
  /\ Move(c, "forward", "giveBack") \/ Move(c, "forwardFree", "over")
  /\ UNCHANGED <<limits, took>>

\* <-s.connSem, the field as it is now: blocks on nil and on an empty channel.
GiveBack(c) ==
  /\ connSem # None
  /\ slots[connSem] > 0
  /\ Move(c, "giveBack", "over")
  /\ slots' = [slots EXCEPT ![connSem] = @ - 1]
  /\ UNCHANGED <<connSem, made, took>>

ConnStep(c) ==
  \/ CheckRateLimit(c) \/ CheckSem(c) \/ Send(c) \/ Refuse(c)
  \/ Defer(c) \/ Finish(c) \/ GiveBack(c)

Next == SetOptions \/ \E c \in Conns : Connect(c) \/ ConnStep(c)

Spec == Init /\ [][Next]_vars

-----------------------------------------------------------------------------
\* handle.go:44-46 "the caller is responsible for releasing it (via defer
\* <-s.connSem) at connection end": a connection whose TCPHandle has returned
\* holds no slot, so the slots taken are those of the connections still handled.
SlotReleased ==
  \A m \in Sems : slots[m] = Cardinality({c \in Conns : took[c] = m /\ at[c] # "over"})
=============================================================================
