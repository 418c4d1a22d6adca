----------------------------- MODULE Incarnations -----------------------------
(***************************************************************************)
(* What the Start/Stop contract of a tunnel promises about its             *)
(* incarnations, whatever goroutines carry it out: each Start begins a new *)
(* incarnation, a Stop ends the current one exactly once, nothing binds    *)
(* the port while the tunnel is stopped, and one incarnation at most       *)
(* accepts connections at a time.                                          *)
(***************************************************************************)
CONSTANTS Ids, None

ASSUME IdsAssumption == None \notin Ids

VARIABLES
  current,    \* the incarnation begun last
  stopped,    \* it has been stopped
  ended,      \* the incarnations that have been stopped
  accepting   \* the incarnation that accepts connections, or None

vars == <<current, stopped, ended, accepting>>

Init ==
  /\ current = None
  /\ stopped = FALSE
  /\ ended = {}
  /\ accepting = None

Begin(i) ==
  /\ i \notin ended \cup {current}
  /\ current' = i
  /\ stopped' = FALSE
  /\ UNCHANGED <<ended, accepting>>

Bind ==
  /\ ~stopped
  /\ current # None
  /\ accepting = None
  /\ accepting' = current
  /\ UNCHANGED <<current, stopped, ended>>

Halt ==
  /\ ~stopped
  /\ current \notin ended
  /\ stopped' = TRUE
  /\ ended' = ended \cup {current}
  /\ UNCHANGED <<current, accepting>>

\* The port is released: by a Stop, or by an incarnation that fails.
Unbind ==
  /\ accepting # None
  /\ accepting' = None
  /\ UNCHANGED <<current, stopped, ended>>

Next == (\E i \in Ids : Begin(i)) \/ Bind \/ Halt \/ Unbind

Spec == Init /\ [][Next]_vars

\* A stopped tunnel does release its port.
FairSpec == Spec /\ WF_vars(stopped /\ Unbind)
=============================================================================
