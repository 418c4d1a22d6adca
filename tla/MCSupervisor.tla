----------------------------- MODULE MCSupervisor -----------------------------
(***************************************************************************)
(* Supervisor with a file that keeps its port and its type, changes its    *)
(* port, changes its type, or is broken.                                   *)
(***************************************************************************)
EXTENDS Supervisor, TLC

CONSTANTS first, moved, other

MCFiles == {first, moved, other}
MCPort == first :> 1 @@ moved :> 2 @@ other :> 1
MCKind == first :> "tcpclient" @@ moved :> "tcpclient" @@ other :> "ircclient"
=============================================================================
