----------------------------- MODULE OptionValues -----------------------------
(***************************************************************************)
(* The values of options and what the validators of lib/core/validate and  *)
(* lib/core/options.go make of them.  A form is what SetOptions is given,  *)
(* a function of some of the Fields; a file is what LoadConfig reads.      *)
(* Numbers are given as numbers or as Bad, a text that is none; the other  *)
(* texts are model values, of which Bad is refused (an empty name, an      *)
(* interface that is no IP address, a target that cannot be resolved).     *)
(***************************************************************************)
EXTENDS Naturals, Sequences

CONSTANTS
  Bad,      \* a text that every validator refuses
  NaN,      \* what ParseFloat reads in "NaN", which is less than nothing
  NoI2CP    \* no i2cp.* option

Fields ==
  {"name", "interface", "port", "target", "i2cp", "maxconns", "ratelimit", "dialtimeout"}

\* The fields a configuration file replaces; i2cp may be missing in it.
Filed == {"name", "interface", "port", "target", "i2cp"}

MaxPort == 65535
Ports == 1..MaxPort

\* Slip: off by one.
PortValidSlip(v) == v \in 0..MaxPort
\* validate.PortString, validate.Port
PortValid(v) == v \in Ports

\* validate.MaxConnections, and a dial timeout: zero is no limit.
CountValid(v) == v # Bad /\ v \in Nat

\* validate.RateLimitString: NaN < 0 is false.
RateValid(v) == v = NaN \/ CountValid(v)

Valid(f, v) ==
  CASE f = "port" -> PortValid(v)
    [] f \in {"maxconns", "dialtimeout"} -> CountValid(v)
    [] f = "ratelimit" -> RateValid(v)
    [] f = "i2cp" -> TRUE
    [] OTHER -> v # Bad

\* The fields in the order in which TunnelBase.SetOptions and its callers apply
\* them, the same as a set, and those that TCPClient.SetOptions knows.
BaseOrder == <<"name", "interface", "port", "i2cp", "maxconns", "ratelimit", "target">>
BaseFields == Fields \ {"dialtimeout"}
ClientFields == Fields \ {"ratelimit"}

Before(f, g) ==
  \E i, j \in DOMAIN BaseOrder : i < j /\ BaseOrder[i] = f /\ BaseOrder[j] = g

\* The fields of a form that a tunnel which knows `known' validates and applies.
AllValid(form, known) == \A f \in DOMAIN form \cap known : Valid(f, form[f])

Merge(config, form, known) ==
  [f \in Fields |-> IF f \in DOMAIN form \cap known THEN form[f] ELSE config[f]]

\* t.TunnelConfig = *newConfig; the limits stay.  The TCP client keeps its I2CP
\* options when the file has none.
Loaded(config, file, keepsI2CP) ==
  [f \in Fields |->
     IF f \in DOMAIN file THEN file[f]
     ELSE IF f = "i2cp" /\ ~keepsI2CP THEN NoI2CP ELSE config[f]]

\* net.JoinHostPort(t.Interface, strconv.Itoa(t.Port))
Address(config) == <<config["interface"], config["port"]>>
=============================================================================
