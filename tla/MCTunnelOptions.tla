---------------------------- MODULE MCTunnelOptions ----------------------------
(***************************************************************************)
(* TunnelOptions on forms at the boundaries of what the validators accept: *)
(* forms that are valid, and forms that fail in their first, an inner and  *)
(* their last field.                                                       *)
(***************************************************************************)
EXTENDS TunnelOptions, TLC

CONSTANTS old, new

MCInitial ==
  [f \in Fields |-> CASE f = "port" -> 8080
                      [] f = "i2cp" -> NoI2CP
                      [] f \in {"maxconns", "ratelimit", "dialtimeout"} -> 0
                      [] OTHER -> old]

MCForms ==
  { ("port" :> 65535) @@ ("i2cp" :> new) @@ ("maxconns" :> 2),
    ("interface" :> new) @@ ("port" :> 65536) @@ ("maxconns" :> 1),
    ("port" :> 0),
    ("name" :> new) @@ ("ratelimit" :> NaN) @@ ("target" :> Bad),
    ("maxconns" :> Bad) @@ ("dialtimeout" :> 3) }

MCFiles ==
  { [f \in Filed \ {"i2cp"} |-> IF f = "port" THEN 9090 ELSE new],
    [f \in Filed |-> IF f = "port" THEN 1 ELSE new] }
=============================================================================
