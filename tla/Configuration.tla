---------------------------- MODULE Configuration -----------------------------
(***************************************************************************)
(* What SetOptions and LoadConfig promise about a tunnel's configuration.  *)
(* Of an atomic tunnel: a form is applied as a whole or not at all, and a  *)
(* file replaces the configuration only while the tunnel listens nowhere.  *)
(* Of any tunnel: whatever is applied is valid, and the tunnel listens     *)
(* where its configuration says when it begins to listen.                  *)
(***************************************************************************)
EXTENDS OptionValues

CONSTANTS Forms, Files, Initial, None

VARIABLES
  atomic,   \* the tunnel applies a form as a whole
  config,   \* the configuration
  bound     \* the address the tunnel listens on, or None

vars == <<atomic, config, bound>>

Interfaces ==
  {Initial["interface"]} \cup {file["interface"] : file \in Files}
    \cup {form["interface"] : form \in {g \in Forms : "interface" \in DOMAIN g}}

Init ==
  /\ atomic \in BOOLEAN
  /\ config = Initial
  /\ bound = None

\* A form that is valid is applied as a whole.
Set(form) ==
  /\ atomic
  /\ AllValid(form, ClientFields)
  /\ config' = Merge(config, form, ClientFields)
  /\ UNCHANGED bound

\* One valid field of a form is applied, whatever becomes of the others.
SetField(form, f) ==
  /\ ~atomic
  /\ Valid(f, form[f])
  /\ config' = [config EXCEPT ![f] = form[f]]
  /\ UNCHANGED bound

Load(file) ==
  /\ atomic => bound = None
  /\ config' = Loaded(config, file, atomic)
  /\ UNCHANGED bound

\* The interface may have been read before the rest of the configuration.
Bind ==
  /\ bound = None
  /\ \E interface \in Interfaces : bound' = <<interface, config["port"]>>
  /\ atomic => bound' = Address(config)
  /\ UNCHANGED config

Unbind == bound # None /\ bound' = None /\ UNCHANGED config

Next ==
  /\ \/ \E form \in Forms : Set(form) \/ (\E f \in DOMAIN form : SetField(form, f))
     \/ \E file \in Files : Load(file)
     \/ Bind \/ Unbind
  /\ UNCHANGED atomic

Spec == Init /\ [][Next]_vars
=============================================================================
