------------------------------ MODULE TunnelGroup ------------------------------
(***************************************************************************)
(* The tunnels of the web program (webui/controller): the list that the    *)
(* handlers share without a lock, the configuration file of each tunnel,   *)
(* requests that create and edit tunnels, each in a goroutine of its own,  *)
(* and crashes of the process, after which NewControllerGroup reads the    *)
(* directory again.  A tunnel is named by its cleaned name, which is also  *)
(* the name of its file.  A controller is named by the request that        *)
(* created it, or by its tunnel if it was loaded from the directory.  A    *)
(* form gives every setting one value; of a tunnel's settings, saved are   *)
(* those that the file keeps (target, port, interface, i2cp), and other    *)
(* those that it does not (maxconns, ratelimit, jumpservice, outproxy).    *)
(***************************************************************************)
EXTENDS Naturals, SequencesExt

CONSTANTS
  Tunnels,     \* the cleaned names
  Requests,    \* the POST requests that may come
  Values,      \* what a form may ask for
  Default,     \* what a setting is that neither form nor file gives
  None,        \* no file, no controller
  Torn,        \* the content of a file that is being written
  Serial,      \* requests that create tunnels do not overlap
  MaxCrashes   \* bound on the crashes

ASSUME GroupNamesAssumption ==
  /\ Tunnels \cap Requests = {}
  /\ None \notin Tunnels \cup Requests
  /\ Default \notin Values

ASSUME GroupBoundAssumption == Serial \in BOOLEAN /\ MaxCrashes \in Nat

VARIABLES
  up,            \* the process runs
  tunnels,       \* cg.I2PTunnels, a sequence of controllers
  registry,      \* the tunnels with metrics in metricsHandler.Registry
  memory,        \* the settings of each controller's tunnel
  file, temp,    \* each tunnel's configuration file, and that file with .tmp
  pc, form,      \* where each request stands, and what it asks for
  slice,         \* the list a request has read to append to it
  acknowledged,  \* the value of the last form that was done and is redirected
  crashes        \* how often the process has crashed

group == <<tunnels, registry, memory>>
disk == <<file, temp>>
vars == <<up, group, disk, pc, form, slice, acknowledged, crashes>>

Controllers == Tunnels \cup Requests
Settings == [saved : Values, other : Values \cup {Default}]

\* The directory is finite; no file, a torn file and a whole one are told apart.
ASSUME FilesAssumption ==
  IsFiniteSet(Tunnels) /\ None # Torn /\ Settings \cap {None, Torn} = {}

Creating == {"open", "write", "load", "remove", "read", "append", "register"}
Editing == {"apply", "openTemp", "writeTemp", "rename"}
InFlight(r) == pc[r] \in Creating \cup Editing

Goto(r, from, to) == pc[r] = from /\ pc' = [pc EXCEPT ![r] = to]
Whole(content) == content \notin {None, Torn}
Name(c) == IF c \in Tunnels THEN c ELSE form[c].name
Names == {Name(tunnels[i]) : i \in DOMAIN tunnels}

\* The first controller of that name: routeTunnelConfig's.
Controller(n) ==
  tunnels[CHOOSE i \in DOMAIN tunnels :
            /\ Name(tunnels[i]) = n
            /\ \A j \in 1..(i - 1) : Name(tunnels[j]) # n]

-----------------------------------------------------------------------------
\* NewControllerGroup: the tunnels of a directory, in some order.
Present(files) == {n \in Tunnels : files[n] # None}
LoadedFrom(files) ==
  [c \in Controllers |-> IF c \in Present(files) THEN files[c] ELSE None]

Init ==
  /\ up = TRUE
  /\ file \in [Tunnels -> {None} \cup {[saved |-> v, other |-> v] : v \in Values}]
  /\ temp = [n \in Tunnels |-> None]
  /\ tunnels = SetToSeq(Present(file))
  /\ registry = Present(file)
  /\ memory = LoadedFrom(file)
  /\ pc = [r \in Requests |-> "idle"]
  /\ form = [r \in Requests |-> None]
  /\ slice = [r \in Requests |-> << >>]
  /\ acknowledged = [n \in Tunnels |-> None]
  /\ crashes = 0

(***************************************************************************)
(* The users: a tunnel is edited by one request at a time, and not while   *)
(* one of its name is created.  Serial users also create one at a time.    *)
(***************************************************************************)
MayCreate(n) ==
  \A r \in Requests : InFlight(r) => /\ Serial => pc[r] \notin Creating
                                     /\ form[r].name = n => pc[r] \in Creating
MayEdit(n) == \A r \in Requests : InFlight(r) => form[r].name # n

-----------------------------------------------------------------------------
\* Slip: a name that has a controller passes.
UnusedSlip(n) == TRUE
Unused(n) == n \notin Names

\* Slip: the configuration file itself is opened for writing.
OpenForSaveSlip(n) == file' = [file EXCEPT ![n] = Torn] /\ UNCHANGED temp
\* os.WriteFile(tempPath, ...) truncates the file first.
OpenForSave(n) == temp' = [temp EXCEPT ![n] = Torn] /\ UNCHANGED file

\* Slip: the error of os.Rename is dropped.
RenameErrorSlip(r) ==
  acknowledged' = [acknowledged EXCEPT ![form[r].name] = form[r].value]
\* saveConfig fails, and the form is shown with the error.
RenameError(r) == UNCHANGED acknowledged

\* Slip: the configuration file is removed.
CleanUpSlip(n) == file' = [file EXCEPT ![n] = None] /\ temp' = [temp EXCEPT ![n] = None]
\* os.Remove(tempPath)
CleanUp(n) == temp' = [temp EXCEPT ![n] = None] /\ UNCHANGED file

-----------------------------------------------------------------------------
(***************************************************************************)
(* POST /new.                                                              *)
(***************************************************************************)
PostNew(r) ==
  /\ up
  /\ Goto(r, "idle", "open")
  /\ \E n \in Tunnels, v \in Values :
       /\ MayCreate(n)
       /\ Unused(n)
       /\ form' = [form EXCEPT ![r] = [name |-> n, value |-> v]]
  /\ UNCHANGED <<up, group, disk, slice, acknowledged, crashes>>

\* os.WriteFile: the file is created or truncated ...
OpenFile(r) ==
  /\ Goto(r, "open", "write")
  /\ file' = [file EXCEPT ![form[r].name] = Torn]
  /\ UNCHANGED <<up, group, temp, form, slice, acknowledged, crashes>>

\* ... and written.
WriteFile(r) ==
  /\ Goto(r, "write", "load")
  /\ file' = [file EXCEPT ![form[r].name] = [saved |-> form[r].value, other |-> Default]]
  /\ UNCHANGED <<up, group, temp, form, slice, acknowledged, crashes>>

\* An error of os.WriteFile is shown, and what is on the disk stays there.
WriteError(r) ==
  /\ \E step \in {"open", "write"} : Goto(r, step, "over")
  /\ UNCHANGED <<up, group, disk, form, slice, acknowledged, crashes>>

\* NewController: the file is read and a tunnel with a SAM session is made.
Load(r) ==
  /\ Goto(r, "load", "read")
  /\ Whole(file[form[r].name])
  /\ memory' = [memory EXCEPT ![r] = file[form[r].name]]
  /\ UNCHANGED <<up, tunnels, registry, disk, form, slice, acknowledged, crashes>>

\* The file is not found or not understood, or there is no SAM session.
LoadError(r) ==
  /\ Goto(r, "load", "remove")
  /\ UNCHANGED <<up, group, disk, form, slice, acknowledged, crashes>>

RemoveConfig(r) ==
  /\ Goto(r, "remove", "over")
  /\ file' = [file EXCEPT ![form[r].name] = None]
  /\ UNCHANGED <<up, group, temp, form, slice, acknowledged, crashes>>

\* cg.I2PTunnels = append(cg.I2PTunnels, *controller): a read ...
ReadTunnels(r) ==
  /\ Goto(r, "read", "append")
  /\ slice' = [slice EXCEPT ![r] = tunnels]
  /\ UNCHANGED <<up, group, disk, form, acknowledged, crashes>>

\* ... and a write.
WriteTunnels(r) ==
  /\ Goto(r, "append", "register")
  /\ tunnels' = Append(slice[r], r)
  /\ UNCHANGED <<up, registry, memory, disk, form, slice, acknowledged, crashes>>

\* The metrics are registered and the request is redirected.
Register(r) ==
  /\ Goto(r, "register", "over")
  /\ registry' = registry \cup {form[r].name}
  /\ acknowledged' = [acknowledged EXCEPT ![form[r].name] = form[r].value]
  /\ UNCHANGED <<up, tunnels, memory, disk, form, slice, crashes>>

CreateStep(r) ==
  \/ PostNew(r) \/ OpenFile(r) \/ WriteFile(r) \/ WriteError(r) \/ Load(r) \/ LoadError(r)
  \/ RemoveConfig(r) \/ ReadTunnels(r) \/ WriteTunnels(r) \/ Register(r)

-----------------------------------------------------------------------------
(***************************************************************************)
(* POST /<tunnel>/config.  A tunnel that runs refuses the form; whether it *)
(* does is left open here.                                                 *)
(***************************************************************************)
PostConfig(r) ==
  /\ up
  /\ Goto(r, "idle", "apply")
  /\ \E n \in Names, v \in Values :
       /\ MayEdit(n)
       /\ form' = [form EXCEPT ![r] = [name |-> n, value |-> v]]
  /\ UNCHANGED <<up, group, disk, slice, acknowledged, crashes>>

SetOptions(r) ==
  /\ Goto(r, "apply", "openTemp")
  /\ memory' = [memory EXCEPT ![Controller(form[r].name)] =
                  [saved |-> form[r].value, other |-> form[r].value]]
  /\ UNCHANGED <<up, tunnels, registry, disk, form, slice, acknowledged, crashes>>

\* The form is refused, or SetOptions fails with or without the common options applied.
SetOptionsError(r) ==
  /\ Goto(r, "apply", "over")
  /\ LET c == Controller(form[r].name)
     IN \/ UNCHANGED memory
        \/ memory' = [memory EXCEPT ![c].saved = form[r].value]
  /\ UNCHANGED <<up, tunnels, registry, disk, form, slice, acknowledged, crashes>>

OpenTemp(r) ==
  /\ Goto(r, "openTemp", "writeTemp")
  /\ OpenForSave(form[r].name)
  /\ UNCHANGED <<up, group, form, slice, acknowledged, crashes>>

\* What buildTunnelConfigFields takes from Options().
WriteTemp(r) ==
  /\ Goto(r, "writeTemp", "rename")
  /\ LET n == form[r].name
     IN temp' = [temp EXCEPT ![n] = [saved |-> memory[Controller(n)].saved, other |-> Default]]
  /\ UNCHANGED <<up, group, file, form, slice, acknowledged, crashes>>

\* An error of os.WriteFile leaves the temporary file as it is.
WriteTempError(r) ==
  /\ \E step \in {"openTemp", "writeTemp"} : Goto(r, step, "over")
  /\ UNCHANGED <<up, group, disk, form, slice, acknowledged, crashes>>

Rename(r) ==
  /\ Goto(r, "rename", "over")
  /\ LET n == form[r].name
     IN /\ file' = [file EXCEPT ![n] = temp[n]]
        /\ temp' = [temp EXCEPT ![n] = None]
        /\ acknowledged' = [acknowledged EXCEPT ![n] = form[r].value]
  /\ UNCHANGED <<up, group, form, slice, crashes>>

\* os.Rename fails and os.Remove takes the temporary file away.
RenameFails(r) ==
  /\ Goto(r, "rename", "over")
  /\ CleanUp(form[r].name)
  /\ RenameError(r)
  /\ UNCHANGED <<up, group, form, slice, crashes>>

EditStep(r) ==
  \/ PostConfig(r) \/ SetOptions(r) \/ SetOptionsError(r) \/ OpenTemp(r) \/ WriteTemp(r)
  \/ WriteTempError(r) \/ Rename(r) \/ RenameFails(r)

-----------------------------------------------------------------------------
\* The process ends at any time, and its requests with it.
Crash ==
  /\ up /\ crashes < MaxCrashes
  /\ up' = FALSE
  /\ crashes' = crashes + 1
  /\ tunnels' = << >> /\ registry' = {}
  /\ memory' = [c \in Controllers |-> None]
  /\ pc' = [r \in Requests |-> IF InFlight(r) THEN "over" ELSE pc[r]]
  /\ slice' = [r \in Requests |-> << >>]
  /\ UNCHANGED <<disk, form, acknowledged>>

\* Slip: a file that is cut short is taken for a tunnel.
LoadableSlip == TRUE
\* Every file of the directory must be one that can be loaded, which a file
\* that ends in .tmp is not.
Loadable == \A n \in Tunnels : file[n] # Torn /\ temp[n] = None

\* NewControllerGroup; if it fails the program ends at once.
NewControllerGroup ==
  /\ ~up
  /\ Loadable
  /\ up' = TRUE
  /\ tunnels' = SetToSeq(Present(file))
  /\ registry' = Present(file)
  /\ memory' = LoadedFrom(file)
  /\ UNCHANGED <<disk, pc, form, slice, acknowledged, crashes>>

Next == Crash \/ NewControllerGroup \/ \E r \in Requests : CreateStep(r) \/ EditStep(r)

Spec == Init /\ [][Next]_vars

-----------------------------------------------------------------------------
\* Every variable has its type.
GroupTypeOK ==
  /\ up \in BOOLEAN /\ crashes \in 0..MaxCrashes
  /\ tunnels \in Seq(Controllers) /\ registry \subseteq Tunnels
  /\ memory \in [Controllers -> Settings \cup {None}]
  /\ file \in [Tunnels -> Settings \cup {None, Torn}]
  /\ temp \in [Tunnels -> Settings \cup {None, Torn}]
  /\ pc \in [Requests -> {"idle", "over"} \cup Creating \cup Editing]
  /\ form \in [Requests -> [name : Tunnels, value : Values] \cup {None}]
  /\ slice \in [Requests -> Seq(Controllers)]
  /\ acknowledged \in [Tunnels -> Values \cup {None}]

\* Through creations that fail, edits that fail and crashes, every tunnel in
\* the list can be loaded again: its file is there and is whole.
TunnelHasFile == \A n \in Names : Whole(file[n])

\* validateNewTunnelForm with serial users: no two tunnels share a name, and with
\* it a file.
NamesUnique ==
  \A i, j \in DOMAIN tunnels : Name(tunnels[i]) = Name(tunnels[j]) => i = j

\* saveConfig: a file that is whole is replaced by one that is whole, or
\* removed with a creation that failed; it is never seen half written.
FilesStayWhole == [][\A n \in Tunnels : Whole(file[n]) => file'[n] # Torn]_vars

\* What the user was told is saved is on the disk, whatever fails or crashes
\* afterwards, and it is what the program starts with again.
AcknowledgedSurvives ==
  \A n \in Tunnels :
    acknowledged[n] # None => Whole(file[n]) /\ file[n].saved = acknowledged[n]
=============================================================================
