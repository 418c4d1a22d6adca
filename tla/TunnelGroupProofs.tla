-------------------------- MODULE TunnelGroupProofs ---------------------------
(***************************************************************************)
(* What holds of the tunnels of the web program for any finite directory,  *)
(* any requests and any number of crashes, when the users create one       *)
(* tunnel at a time.                                                       *)
(***************************************************************************)
EXTENDS TunnelGroup, FiniteSetTheorems, SequenceTheorems, TLAPS

\* A creation that has not yet appended its controller, and one whose file is written.
Pending == Creating \ {"register"}
Written == {"load", "read", "append", "register"}

\* A form is in flight for one name at a time, and one creation at most.
RequestInv ==
  /\ \A r \in Requests : InFlight(r) => up /\ form[r] \in [name : Tunnels, value : Values]
  /\ \A r, q \in Requests : pc[r] \in Creating /\ pc[q] \in Creating => r = q
  /\ \A r, q \in Requests : InFlight(r) /\ InFlight(q) /\ form[r].name = form[q].name => r = q

\* A controller in the list was loaded, or its request has got so far; every one
\* has settings.
ListInv ==
  /\ tunnels \in Seq(Controllers)
  /\ ~up => tunnels = << >>
  /\ \A i \in DOMAIN tunnels :
       /\ tunnels[i] \in Requests =>
            pc[tunnels[i]] \in {"register", "over"} /\ form[tunnels[i]] \in [name : Tunnels, value : Values]
       /\ memory[tunnels[i]] \in Settings

\* A name that is being created is not in the list until the list is written, and
\* then it is the list that was read; a name that is being edited is in the list.
NameInv ==
  /\ \A r \in Requests :
       /\ pc[r] \in Pending => form[r].name \notin Names
       /\ pc[r] = "append" => slice[r] = tunnels
       /\ pc[r] = "register" => form[r].name \in Names
       /\ pc[r] \in Editing => form[r].name \in Names
       /\ pc[r] \in {"read", "append"} => memory[r] \in Settings
  /\ NamesUnique

\* A request that has written a file, applied a form or written a temporary file
\* finds there what its form asks for.
WrittenInv ==
  \A r \in Requests :
    pc[r] \in Written => Whole(file[form[r].name]) /\ file[form[r].name].saved = form[r].value
AppliedInv ==
  \A r \in Requests : \A i \in DOMAIN tunnels :
    pc[r] \in {"openTemp", "writeTemp"} /\ Name(tunnels[i]) = form[r].name
      => memory[tunnels[i]].saved = form[r].value
TempInv ==
  \A r \in Requests :
    pc[r] = "rename" => temp[form[r].name] \in Settings /\ temp[form[r].name].saved = form[r].value

\* A name that is not in the list has not been acknowledged, and its file is whole
\* only while it is being created.
MakingOf(n) == {r \in Requests : pc[r] \in {"load", "remove", "read", "append"} /\ form[r].name = n}
UnlistedInv ==
  up => \A n \in Tunnels \ Names :
          acknowledged[n] = None /\ (Whole(file[n]) => MakingOf(n) # {})

FileInv == TunnelHasFile /\ WrittenInv /\ AppliedInv /\ TempInv /\ UnlistedInv /\ AcknowledgedSurvives

GroupInv == RequestInv /\ ListInv /\ NameInv /\ FileInv

-----------------------------------------------------------------------------
\* SetToSeq lists a finite set: every element once.
LEMMA SetToSeqLists ==
  ASSUME NEW S, IsFiniteSet(S)
  PROVE  /\ SetToSeq(S) \in Seq(S)
         /\ \A i, j \in DOMAIN SetToSeq(S) : SetToSeq(S)[i] = SetToSeq(S)[j] => i = j
         /\ {SetToSeq(S)[i] : i \in DOMAIN SetToSeq(S)} = S
<1> DEFINE n == Cardinality(S)
           f == SetToSeq(S)
<1>1. n \in Nat /\ ExistsBijection(1..n, S)
  BY FS_CardinalityType
<1>2. \E g \in [1..n -> S] : IsInjective(g)
  BY <1>1 DEF ExistsBijection, Bijection, Injection
<1>3. f \in [1..n -> S] /\ IsInjective(f)
  BY <1>2 DEF SetToSeq
<1>4. f \in Seq(S)
  BY <1>1, <1>3, SeqDef
<1>5. IsFiniteSet(1..n) /\ Cardinality(1..n) = n
  BY <1>1, FS_Interval
<1>6. f \in Surjection(1..n, S)
  BY <1>3, <1>5, FS_Injection DEF Injection
<1>7. {f[i] : i \in DOMAIN f} = S
  BY <1>3, <1>6 DEF Surjection
<1> QED
  BY <1>3, <1>4, <1>7 DEF IsInjective

\* The first controller of a name is the only one.
LEMMA ControllerIsTheOne ==
  ASSUME GroupInv, NEW i \in DOMAIN tunnels
  PROVE  Controller(Name(tunnels[i])) = tunnels[i]
<1> DEFINE n == Name(tunnels[i])
           First(k) == Name(tunnels[k]) = n /\ \A j \in 1..(k - 1) : Name(tunnels[j]) # n
<1>1. \A k \in DOMAIN tunnels : Name(tunnels[k]) = n => k = i
  BY DEF GroupInv, NameInv, NamesUnique
<1>2. DOMAIN tunnels = 1..Len(tunnels) /\ Len(tunnels) \in Nat
  BY DEF GroupInv, ListInv
<1>3. First(i)
  BY <1>1, <1>2
<1>4. (CHOOSE k \in DOMAIN tunnels : First(k)) = i
  BY <1>1, <1>3
<1> QED
  BY <1>4 DEF Controller

\* The form and the tunnel of a request that edits.
LEMMA EditedTunnel ==
  ASSUME GroupInv, NEW r \in Requests, pc[r] \in Editing
  PROVE  \E i \in DOMAIN tunnels : /\ Name(tunnels[i]) = form[r].name
                                   /\ Controller(form[r].name) = tunnels[i]
                                   /\ memory[tunnels[i]] \in Settings
                                   /\ form[r] \in [name : Tunnels, value : Values]
<1>1. form[r].name \in Names /\ form[r] \in [name : Tunnels, value : Values]
  BY DEF GroupInv, NameInv, RequestInv, InFlight
<1>2. PICK i \in DOMAIN tunnels : Name(tunnels[i]) = form[r].name
  BY <1>1 DEF Names
<1>3. Controller(form[r].name) = tunnels[i]
  BY <1>2, ControllerIsTheOne
<1>4. memory[tunnels[i]] \in Settings
  BY DEF GroupInv, ListInv
<1> QED
  BY <1>1, <1>2, <1>3, <1>4

\* Every variable keeps its type.
LEMMA GroupTypeSteps ==
  ASSUME GroupTypeOK, GroupInv, [Next]_vars
  PROVE  GroupTypeOK'
<1> USE GroupBoundAssumption DEF GroupTypeOK, Goto, group, disk, Creating, Editing
<1>1. CASE Crash
  <2>1. tunnels' \in Seq(Controllers) /\ slice' \in [Requests -> Seq(Controllers)]
    BY <1>1, EmptySeq DEF Crash
  <2>2. crashes' \in 0..MaxCrashes
    BY <1>1 DEF Crash
  <2>3. pc' \in [Requests -> {"idle", "over"} \cup Creating \cup Editing]
    BY <1>1 DEF Crash
  <2> QED
    BY <1>1, <2>1, <2>2, <2>3 DEF Crash
<1>2. CASE NewControllerGroup
  <2>1. Present(file) \subseteq Tunnels /\ IsFiniteSet(Present(file))
    BY FilesAssumption, FS_Subset DEF Present
  <2>2. SetToSeq(Present(file)) \in Seq(Controllers)
    <3>1. SetToSeq(Present(file)) \in Seq(Present(file))
      BY <2>1, SetToSeqLists
    <3>2. Present(file) \subseteq Controllers
      BY <2>1 DEF Controllers
    <3> QED
      BY <3>1, <3>2
  <2>3. LoadedFrom(file) \in [Controllers -> Settings \cup {None}]
    <3>1. \A n \in Tunnels : file[n] # None => file[n] \in Settings
      BY <1>2 DEF NewControllerGroup, Loadable
    <3> QED
      BY <3>1 DEF LoadedFrom, Present
  <2> QED
    BY <1>2, <2>1, <2>2, <2>3 DEF NewControllerGroup
<1>3. ASSUME NEW r \in Requests, PostNew(r) \/ PostConfig(r) PROVE GroupTypeOK'
  <2>1. Names \subseteq Tunnels
    BY DEF Names, Name, GroupInv, ListInv, Controllers
  <2>2. PICK n \in Tunnels, v \in Values : form' = [form EXCEPT ![r] = [name |-> n, value |-> v]]
    BY <1>3, <2>1 DEF PostNew, PostConfig
  <2> QED
    BY <1>3, <2>2 DEF PostNew, PostConfig
<1>4. ASSUME NEW r \in Requests, InFlight(r), CreateStep(r) \/ EditStep(r) PROVE GroupTypeOK'
  <2>1. form[r] \in [name : Tunnels, value : Values]
    BY <1>4 DEF GroupInv, RequestInv
  <2>2. CASE OpenFile(r) \/ WriteFile(r) \/ RemoveConfig(r)
    <3>1. form[r].name \in Tunnels /\ [saved |-> form[r].value, other |-> Default] \in Settings
      BY <2>1 DEF Settings
    <3> QED
      BY <2>2, <3>1 DEF OpenFile, WriteFile, RemoveConfig
  <2>3. CASE WriteError(r) \/ LoadError(r) \/ WriteTempError(r)
    BY <2>3 DEF WriteError, LoadError, WriteTempError
  <2>4. CASE Load(r)
    BY <2>1, <2>4 DEF Load, Whole
  <2>5. CASE ReadTunnels(r)
    BY <2>5 DEF ReadTunnels
  <2>6. CASE WriteTunnels(r)
    <3>1. tunnels' \in Seq(Controllers)
      BY <2>6, AppendProperties DEF WriteTunnels, Controllers
    <3> QED
      BY <2>6, <3>1 DEF WriteTunnels
  <2>7. CASE Register(r)
    BY <2>1, <2>7 DEF Register
  <2>8. CASE SetOptions(r)
    BY <2>1, <2>8 DEF SetOptions, Settings
  <2>9. CASE SetOptionsError(r)
    <3>1. PICK i \in DOMAIN tunnels : Controller(form[r].name) = tunnels[i] /\ memory[tunnels[i]] \in Settings
      BY <2>9, EditedTunnel DEF SetOptionsError
    <3>2. [memory[tunnels[i]] EXCEPT !.saved = form[r].value] \in Settings
      BY <2>1, <3>1 DEF Settings
    <3> QED
      BY <2>9, <3>1, <3>2 DEF SetOptionsError
  <2>10. CASE OpenTemp(r)
    BY <2>10 DEF OpenTemp, OpenForSave
  <2>11. CASE WriteTemp(r)
    <3>1. PICK i \in DOMAIN tunnels : Controller(form[r].name) = tunnels[i] /\ memory[tunnels[i]] \in Settings
      BY <2>11, EditedTunnel DEF WriteTemp
    <3>2. [saved |-> memory[tunnels[i]].saved, other |-> Default] \in Settings
      BY <3>1 DEF Settings
    <3> QED
      BY <2>1, <2>11, <3>1, <3>2 DEF WriteTemp
  <2>12. CASE Rename(r) \/ RenameFails(r)
    BY <2>1, <2>12 DEF Rename, RenameFails, CleanUp, RenameError
  <2> QED
    BY <1>4, <2>2, <2>3, <2>4, <2>5, <2>6, <2>7, <2>8, <2>9, <2>10, <2>11, <2>12
    DEF CreateStep, EditStep, PostNew, PostConfig, InFlight
<1>5. CASE UNCHANGED vars
  BY <1>5 DEF vars
<1>6. ASSUME NEW r \in Requests, ~InFlight(r), CreateStep(r) \/ EditStep(r) PROVE PostNew(r) \/ PostConfig(r)
  BY <1>6 DEF CreateStep, EditStep, InFlight, OpenFile, WriteFile, WriteError, Load, LoadError, RemoveConfig,
     ReadTunnels, WriteTunnels, Register, SetOptions, SetOptionsError, OpenTemp, WriteTemp, WriteTempError,
     Rename, RenameFails
<1> QED
  BY <1>1, <1>2, <1>3, <1>4, <1>5, <1>6 DEF Next

-----------------------------------------------------------------------------
\* The three kinds of steps: the process ends or begins, a form comes in, or a
\* request in flight goes on.
Posts(r) == PostNew(r) \/ PostConfig(r)
GoesOn(r) == InFlight(r) /\ (CreateStep(r) \/ EditStep(r))

LEMMA KindsOfSteps ==
  ASSUME [Next]_vars
  PROVE  \/ Crash \/ NewControllerGroup \/ UNCHANGED vars
         \/ \E r \in Requests : Posts(r) \/ GoesOn(r)
<1>1. ASSUME NEW r \in Requests, CreateStep(r) \/ EditStep(r) PROVE Posts(r) \/ GoesOn(r)
  BY <1>1 DEF Posts, GoesOn, CreateStep, EditStep, InFlight, Creating, Editing, Goto, OpenFile, WriteFile,
     WriteError, Load, LoadError, RemoveConfig, ReadTunnels, WriteTunnels, Register, SetOptions,
     SetOptionsError, OpenTemp, WriteTemp, WriteTempError, Rename, RenameFails
<1> QED
  BY <1>1 DEF Next

\* A request that goes on stays what it is, a creation or an edit, until it is over.
LEMMA GoesOnShape ==
  ASSUME GroupTypeOK, NEW r \in Requests, GoesOn(r)
  PROVE  /\ UNCHANGED <<up, form>>
         /\ \A q \in Requests : q # r => UNCHANGED <<pc[q], slice[q]>>
         /\ pc'[r] \in {"over"} \cup Creating \cup Editing
         /\ pc'[r] \in Creating => pc[r] \in Creating
         /\ pc'[r] \in Editing => pc[r] \in Editing
         /\ pc'[r] \in Pending => pc[r] \in Pending
         /\ pc[r] = "register" => pc'[r] = "over"
BY DEF GroupTypeOK, GoesOn, InFlight, Creating, Editing, Pending, Goto, CreateStep, EditStep, PostNew,
   PostConfig, OpenFile, WriteFile, WriteError, Load, LoadError, RemoveConfig, ReadTunnels, WriteTunnels,
   Register, SetOptions, SetOptionsError, OpenTemp, WriteTemp, WriteTempError, Rename, RenameFails

\* What a form that comes in finds: nobody else has its name in flight, and if it is
\* to create a tunnel, nobody else is creating one.
LEMMA PostsShape ==
  ASSUME Serial, GroupTypeOK, GroupInv, NEW r \in Requests, Posts(r)
  PROVE  /\ up /\ UNCHANGED <<up, group, disk, slice, acknowledged>>
         /\ pc[r] = "idle"
         /\ \A q \in Requests : q # r => UNCHANGED <<pc[q], form[q]>>
         /\ form'[r] \in [name : Tunnels, value : Values]
         /\ \A q \in Requests : InFlight(q) => form[q].name # form'[r].name
         /\ \/ /\ pc'[r] = "open" /\ form'[r].name \notin Names
               /\ \A q \in Requests : pc[q] \notin Creating
            \/ pc'[r] = "apply" /\ form'[r].name \in Names
<1>1. CASE PostNew(r)
  <2>1. PICK n \in Tunnels, v \in Values : MayCreate(n) /\ Unused(n) /\ form' = [form EXCEPT ![r] = [name |-> n, value |-> v]]
    BY <1>1 DEF PostNew
  <2>2. form'[r] = [name |-> n, value |-> v]
    BY <2>1 DEF GroupTypeOK
  <2>3. /\ pc[r] = "idle" /\ pc'[r] = "open" /\ up /\ UNCHANGED <<up, group, disk, slice, acknowledged>>
        /\ \A q \in Requests : q # r => UNCHANGED <<pc[q], form[q]>>
    BY <1>1, <2>1 DEF PostNew, Goto, GroupTypeOK
  <2>4. \A q \in Requests : InFlight(q) => pc[q] \notin Creating /\ form[q].name # n
    BY <2>1 DEF MayCreate
  <2> QED
    BY <2>1, <2>2, <2>3, <2>4 DEF Unused, InFlight
<1>2. CASE PostConfig(r)
  <2>1. PICK n \in Names, v \in Values : MayEdit(n) /\ form' = [form EXCEPT ![r] = [name |-> n, value |-> v]]
    BY <1>2 DEF PostConfig
  <2>2. form'[r] = [name |-> n, value |-> v]
    BY <2>1 DEF GroupTypeOK
  <2>3. /\ pc[r] = "idle" /\ pc'[r] = "apply" /\ up /\ UNCHANGED <<up, group, disk, slice, acknowledged>>
        /\ \A q \in Requests : q # r => UNCHANGED <<pc[q], form[q]>>
    BY <1>2, <2>1 DEF PostConfig, Goto, GroupTypeOK
  <2>4. n \in Tunnels
    BY DEF Names, Name, GroupInv, ListInv, Controllers
  <2> QED
    BY <2>1, <2>2, <2>3, <2>4 DEF MayEdit
<1> QED
  BY <1>1, <1>2 DEF Posts

\* As long as the list stays, so do the names in it: the request of a controller in
\* the list has no other form.
LEMMA NamesStay ==
  ASSUME Serial, GroupTypeOK, GroupInv, UNCHANGED tunnels,
         NEW r \in Requests, Posts(r) \/ GoesOn(r)
  PROVE  /\ \A i \in DOMAIN tunnels : Name(tunnels[i])' = Name(tunnels[i])
         /\ Names' = Names
<1>1. \A q \in Requests : pc[q] # "idle" => UNCHANGED form[q]
  BY PostsShape, GoesOnShape
<1>2. \A i \in DOMAIN tunnels : tunnels[i] \in Requests => pc[tunnels[i]] # "idle"
  BY DEF GroupInv, ListInv
<1>3. \A i \in DOMAIN tunnels : Name(tunnels[i])' = Name(tunnels[i])
  <2> SUFFICES ASSUME NEW i \in DOMAIN tunnels PROVE Name(tunnels[i])' = Name(tunnels[i])
    OBVIOUS
  <2>1. tunnels[i] \in Tunnels \cup Requests
    BY DEF GroupInv, ListInv, Controllers
  <2> QED
    BY <1>1, <1>2, <2>1 DEF Name
<1> QED
  BY <1>3 DEF Names

\* Serial creation: the list that is written is the list that was read, with one
\* more controller, whose name is new.
LEMMA NamesGrow ==
  ASSUME Serial, GroupTypeOK, GroupInv, NEW r \in Requests, WriteTunnels(r)
  PROVE  /\ tunnels' = Append(tunnels, r) /\ tunnels' \in Seq(Controllers)
         /\ DOMAIN tunnels' = DOMAIN tunnels \cup {Len(tunnels) + 1}
         /\ \A i \in DOMAIN tunnels : tunnels'[i] = tunnels[i] /\ Name(tunnels[i])' = Name(tunnels[i])
         /\ tunnels'[Len(tunnels) + 1] = r /\ Name(r)' = form[r].name
         /\ Names' = Names \cup {form[r].name}
<1>1. tunnels' = Append(tunnels, r) /\ UNCHANGED form
  BY DEF WriteTunnels, Goto, GroupInv, NameInv
<1>2. tunnels \in Seq(Controllers) /\ r \in Controllers
  BY DEF GroupInv, ListInv, Controllers
<1>3. /\ tunnels' \in Seq(Controllers) /\ Len(tunnels) \in Nat /\ Len(tunnels') = Len(tunnels) + 1
      /\ \A i \in 1..Len(tunnels) : tunnels'[i] = tunnels[i]
      /\ tunnels'[Len(tunnels) + 1] = r
  BY <1>1, <1>2, AppendProperties, LenProperties
<1>4. DOMAIN tunnels = 1..Len(tunnels) /\ DOMAIN tunnels' = 1..(Len(tunnels) + 1)
  BY <1>2, <1>3, LenProperties
<1>5. DOMAIN tunnels' = DOMAIN tunnels \cup {Len(tunnels) + 1}
  BY <1>3, <1>4
<1>6. Name(r)' = form[r].name
  BY <1>1, GroupNamesAssumption DEF Name
<1>7. \A c : Name(c)' = Name(c)
  BY <1>1 DEF Name
<1> QED
  BY <1>1, <1>3, <1>4, <1>5, <1>6, <1>7 DEF Names

-----------------------------------------------------------------------------
\* After a crash nothing is in flight; the program that starts anew has the tunnels
\* of the directory, each by its name and with the settings of its file.
LEMMA CrashLeaves ==
  ASSUME GroupTypeOK, GroupInv, Crash
  PROVE  /\ ~up' /\ tunnels' = << >> /\ Names' = {}
         /\ \A r \in Requests : pc'[r] \in {"idle", "over"}
<1>1. tunnels' = << >> /\ ~up'
  BY DEF Crash
<1>2. DOMAIN tunnels' = {}
  BY <1>1
<1>3. \A r \in Requests : pc'[r] \in {"idle", "over"}
  BY DEF Crash, InFlight, GroupTypeOK
<1> QED
  BY <1>1, <1>2, <1>3 DEF Names

LEMMA RestartLoads ==
  ASSUME GroupTypeOK, GroupInv, NewControllerGroup
  PROVE  /\ up' /\ UNCHANGED <<disk, pc, form, slice, acknowledged>>
         /\ \A r \in Requests : ~InFlight(r)
         /\ tunnels' \in Seq(Controllers)
         /\ Names' = Present(file)
         /\ NamesUnique'
         /\ \A i \in DOMAIN tunnels' : tunnels'[i] \in Tunnels /\ memory'[tunnels'[i]] \in Settings
         /\ \A n \in Present(file) : Whole(file[n])
<1>1. Present(file) \subseteq Tunnels /\ IsFiniteSet(Present(file))
  BY FilesAssumption, FS_Subset DEF Present
<1>2. /\ tunnels' \in Seq(Present(file))
      /\ \A i, j \in DOMAIN tunnels' : tunnels'[i] = tunnels'[j] => i = j
      /\ {tunnels'[i] : i \in DOMAIN tunnels'} = Present(file)
  BY <1>1, SetToSeqLists DEF NewControllerGroup
<1>3. \A i \in DOMAIN tunnels' : tunnels'[i] \in Present(file) /\ Name(tunnels[i])' = tunnels'[i]
  BY <1>1, <1>2 DEF Name
<1>4. \A n \in Present(file) : Whole(file[n]) /\ file[n] \in Settings
  BY DEF NewControllerGroup, Loadable, Whole, Present, GroupTypeOK
<1>5. \A n \in Present(file) : memory'[n] = file[n]
  BY <1>1 DEF NewControllerGroup, LoadedFrom, Controllers
<1>6. \A r \in Requests : ~InFlight(r)
  BY DEF NewControllerGroup, GroupInv, RequestInv
<1>7. NamesUnique'
  BY <1>2, <1>3 DEF NamesUnique
<1>8. Names' = Present(file)
  BY <1>2, <1>3 DEF Names
<1>9. tunnels' \in Seq(Controllers)
  <2>1. Present(file) \subseteq Controllers
    BY <1>1 DEF Controllers
  <2> QED
    BY <1>2, <2>1
<1> QED
  BY <1>1, <1>3, <1>4, <1>5, <1>6, <1>7, <1>8, <1>9 DEF NewControllerGroup

-----------------------------------------------------------------------------
\* Requests stay apart.
LEMMA RequestSteps ==
  ASSUME Serial, GroupTypeOK, GroupInv, [Next]_vars
  PROVE  RequestInv'
<1> USE DEF RequestInv, InFlight
<1>1. CASE Crash
  BY <1>1, CrashLeaves DEF Creating, Editing
<1>2. CASE NewControllerGroup
  BY <1>2, RestartLoads DEF Creating, Editing
<1>3. ASSUME NEW r \in Requests, Posts(r) PROVE RequestInv'
  BY <1>3, PostsShape DEF GroupInv, Creating, Editing
<1>4. ASSUME NEW r \in Requests, GoesOn(r) PROVE RequestInv'
  BY <1>4, GoesOnShape DEF GroupInv, GoesOn
<1>5. CASE UNCHANGED vars
  BY <1>5 DEF vars, GroupInv
<1> QED
  BY <1>1, <1>2, <1>3, <1>4, <1>5, KindsOfSteps

\* The memory of a controller in the list is that of a tunnel.
LEMMA ListSteps ==
  ASSUME Serial, GroupTypeOK, GroupInv, [Next]_vars
  PROVE  ListInv'
<1>1. CASE Crash
  BY <1>1, CrashLeaves, EmptySeq DEF ListInv
<1>2. CASE NewControllerGroup
  BY <1>2, RestartLoads, GroupNamesAssumption DEF ListInv
<1>3. ASSUME NEW r \in Requests, Posts(r) PROVE ListInv'
  <2>1. UNCHANGED <<tunnels, memory, up>> /\ \A q \in Requests : q # r => UNCHANGED <<pc[q], form[q]>>
    BY <1>3, PostsShape DEF group
  <2>2. pc[r] = "idle"
    BY <1>3, PostsShape
  <2> QED
    BY <2>1, <2>2 DEF GroupInv, ListInv
<1>4. ASSUME NEW r \in Requests, GoesOn(r) PROVE ListInv'
  <2>1. /\ UNCHANGED <<up, form>> /\ up
        /\ \A q \in Requests : q # r => UNCHANGED pc[q]
        /\ pc[r] = "register" => pc'[r] = "over"
        /\ pc[r] # "over"
    BY <1>4, GoesOnShape DEF GroupInv, RequestInv, GoesOn, InFlight, Creating, Editing
  <2>2. CASE WriteTunnels(r)
    <3>1. pc'[r] = "register" /\ pc[r] = "append" /\ UNCHANGED memory
      BY <2>2 DEF WriteTunnels, Goto, GroupTypeOK
    <3>2. memory[r] \in Settings /\ form[r] \in [name : Tunnels, value : Values]
      BY <1>4, <3>1 DEF GroupInv, NameInv, RequestInv, GoesOn
    <3>3. \A i \in DOMAIN tunnels : tunnels[i] # r
      BY <3>1 DEF GroupInv, ListInv
    <3>4. /\ tunnels' \in Seq(Controllers)
          /\ DOMAIN tunnels' = DOMAIN tunnels \cup {Len(tunnels) + 1}
          /\ \A i \in DOMAIN tunnels : tunnels'[i] = tunnels[i]
          /\ tunnels'[Len(tunnels) + 1] = r
      BY <2>2, NamesGrow
    <3> QED
      BY <2>1, <3>1, <3>2, <3>3, <3>4 DEF GroupInv, ListInv
  <2>3. ASSUME ~WriteTunnels(r) PROVE ListInv'
    <3>1. UNCHANGED tunnels
      BY <1>4, <2>3 DEF GoesOn, CreateStep, EditStep, group, PostNew, PostConfig, OpenFile, WriteFile,
         WriteError, Load, LoadError, RemoveConfig, ReadTunnels, Register, SetOptions, SetOptionsError,
         OpenTemp, WriteTemp, WriteTempError, Rename, RenameFails
    <3>2. \A i \in DOMAIN tunnels : memory'[tunnels[i]] \in Settings
      <4>1. CASE Load(r)
        <5>1. \A i \in DOMAIN tunnels : tunnels[i] # r
          BY <4>1 DEF Load, Goto, GroupInv, ListInv
        <5> QED
          BY <4>1, <5>1 DEF Load, GroupTypeOK, GroupInv, ListInv
      <4>2. CASE SetOptions(r)
        <5>1. [saved |-> form[r].value, other |-> form[r].value] \in Settings
          BY <1>4 DEF GroupInv, RequestInv, GoesOn, Settings
        <5> QED
          BY <4>2, <5>1 DEF SetOptions, GroupTypeOK, GroupInv, ListInv
      <4>3. CASE SetOptionsError(r)
        <5>1. PICK i \in DOMAIN tunnels : Controller(form[r].name) = tunnels[i] /\ memory[tunnels[i]] \in Settings
          BY <4>3, EditedTunnel DEF SetOptionsError, Goto, Editing
        <5>2. [memory[tunnels[i]] EXCEPT !.saved = form[r].value] \in Settings
          BY <1>4, <5>1 DEF GroupInv, RequestInv, GoesOn, Settings
        <5>3. \/ UNCHANGED memory
              \/ memory' = [memory EXCEPT ![tunnels[i]] = [memory[tunnels[i]] EXCEPT !.saved = form[r].value]]
          BY <4>3, <5>1 DEF SetOptionsError
        <5>4. \A j \in DOMAIN tunnels : tunnels[j] \in Controllers /\ memory[tunnels[j]] \in Settings
          BY DEF GroupInv, ListInv
        <5>5. memory \in [Controllers -> Settings \cup {None}]
          BY DEF GroupTypeOK
        <5> QED
          BY <5>2, <5>3, <5>4, <5>5
      <4>4. CASE UNCHANGED memory
        BY <4>4 DEF GroupInv, ListInv
      <4> QED
        BY <1>4, <2>3, <4>1, <4>2, <4>3, <4>4
        DEF GoesOn, CreateStep, EditStep, group, PostNew, PostConfig, OpenFile, WriteFile,
         WriteError, LoadError, RemoveConfig, ReadTunnels, Register,
         OpenTemp, WriteTemp, WriteTempError, Rename, RenameFails
    <3> QED
      BY <2>1, <3>1, <3>2 DEF GroupInv, ListInv
  <2> QED
    BY <2>2, <2>3
<1>5. CASE UNCHANGED vars
  BY <1>5 DEF vars, group, GroupInv, ListInv
<1> QED
  BY <1>1, <1>2, <1>3, <1>4, <1>5, KindsOfSteps

\* A name comes into the list when it is new, and stays.
LEMMA NameSteps ==
  ASSUME Serial, GroupTypeOK, GroupInv, [Next]_vars
  PROVE  NameInv'
<1> USE DEF Pending, Creating, Editing
<1>1. CASE Crash
  BY <1>1, CrashLeaves DEF NameInv, NamesUnique
<1>2. CASE NewControllerGroup
  BY <1>2, RestartLoads DEF NameInv, InFlight
<1>3. ASSUME NEW r \in Requests, Posts(r) PROVE NameInv'
  <2>1. UNCHANGED <<tunnels, memory, slice>>
    BY <1>3, PostsShape DEF group
  <2>2. Names' = Names /\ \A i \in DOMAIN tunnels : Name(tunnels[i])' = Name(tunnels[i])
    BY <1>3, <2>1, NamesStay
  <2>3. NamesUnique'
    BY <2>1, <2>2 DEF GroupInv, NameInv, NamesUnique
  <2> QED
    BY <1>3, <2>1, <2>2, <2>3, PostsShape DEF GroupInv, NameInv
<1>4. ASSUME NEW r \in Requests, GoesOn(r) PROVE NameInv'
  <2>1. /\ UNCHANGED form
        /\ \A q \in Requests : q # r => UNCHANGED <<pc[q], slice[q]>>
        /\ pc'[r] \in Editing => pc[r] \in Editing
        /\ pc'[r] \in Pending => pc[r] \in Pending
    BY <1>4, GoesOnShape
  <2>2. CASE WriteTunnels(r)
    <3>1. pc'[r] = "register" /\ pc[r] = "append" /\ UNCHANGED memory
      BY <2>2 DEF WriteTunnels, Goto, GroupTypeOK
    <3>2. form[r].name \notin Names /\ \A q \in Requests : q # r => pc[q] \notin Creating
      BY <3>1 DEF GroupInv, NameInv, RequestInv
    <3>3. /\ DOMAIN tunnels' = DOMAIN tunnels \cup {Len(tunnels) + 1}
          /\ \A i \in DOMAIN tunnels : tunnels'[i] = tunnels[i] /\ Name(tunnels[i])' = Name(tunnels[i])
          /\ tunnels'[Len(tunnels) + 1] = r /\ Name(r)' = form[r].name
          /\ Names' = Names \cup {form[r].name}
      BY <2>2, NamesGrow
    <3>4. \A i \in DOMAIN tunnels' : Name(tunnels[i])' = IF i \in DOMAIN tunnels THEN Name(tunnels[i]) ELSE form[r].name
      <4>1. ASSUME NEW i \in DOMAIN tunnels', i \notin DOMAIN tunnels
            PROVE  Name(tunnels[i])' = form[r].name
        BY <2>1, <3>3, <4>1 DEF Name
      <4> QED
        BY <3>3, <4>1
    <3>5. \A i \in DOMAIN tunnels : Name(tunnels[i]) # form[r].name
      BY <3>2 DEF Names
    <3>6. NamesUnique'
      BY <3>3, <3>4, <3>5 DEF GroupInv, NameInv, NamesUnique
    <3> QED
      BY <2>1, <3>1, <3>2, <3>3, <3>6 DEF GroupInv, NameInv
  <2>3. ASSUME ~WriteTunnels(r) PROVE NameInv'
    <3>1. UNCHANGED tunnels /\ pc'[r] # "register"
      BY <1>4, <2>3 DEF GoesOn, CreateStep, EditStep, group, Goto, GroupTypeOK, PostNew, PostConfig, OpenFile,
         WriteFile, WriteError, Load, LoadError, RemoveConfig, ReadTunnels, Register, SetOptions,
         SetOptionsError, OpenTemp, WriteTemp, WriteTempError, Rename, RenameFails
    <3>2. Names' = Names /\ \A i \in DOMAIN tunnels : Name(tunnels[i])' = Name(tunnels[i])
      BY <1>4, <3>1, NamesStay
    <3>3. pc'[r] = "append" => slice'[r] = tunnels
      BY <1>4, <2>3 DEF GoesOn, CreateStep, EditStep, Goto, GroupTypeOK, PostNew, PostConfig, OpenFile,
         WriteFile, WriteError, Load, LoadError, RemoveConfig, ReadTunnels, Register, SetOptions,
         SetOptionsError, OpenTemp, WriteTemp, WriteTempError, Rename, RenameFails
    <3>4. ASSUME NEW q \in Requests, pc'[q] \in {"read", "append"} PROVE memory'[q] \in Settings
      <4>1. CASE Load(r)
        <5>1. memory'[r] \in Settings /\ (q # r => memory'[q] = memory[q])
          BY <4>1 DEF Load, GroupTypeOK, Whole, Controllers, GroupInv, RequestInv, InFlight, Goto
        <5> QED
          BY <2>1, <3>4, <5>1 DEF GroupInv, NameInv
      <4>2. CASE SetOptions(r) \/ SetOptionsError(r)
        <5>1. pc[r] = "apply" /\ pc'[r] \in {"openTemp", "over"}
          BY <4>2 DEF SetOptions, SetOptionsError, Goto, GroupTypeOK
        <5>2. q # r /\ pc[q] \in {"read", "append"}
          BY <2>1, <3>4, <5>1
        <5>3. PICK i \in DOMAIN tunnels : Controller(form[r].name) = tunnels[i]
          BY <5>1, EditedTunnel
        <5>4. tunnels[i] # q /\ memory[q] \in Settings
          BY <5>2 DEF GroupInv, ListInv, NameInv
        <5>5. \/ UNCHANGED memory
              \/ \E settings : memory' = [memory EXCEPT ![tunnels[i]] = settings]
          BY <4>2, <5>3 DEF SetOptions, SetOptionsError
        <5>6. q \in DOMAIN memory
          BY DEF GroupTypeOK, Controllers
        <5> QED
          BY <5>4, <5>5, <5>6
      <4>3. CASE ~Load(r) /\ ~SetOptions(r) /\ ~SetOptionsError(r)
        <5>1. UNCHANGED memory /\ (pc'[r] \in {"read", "append"} => pc[r] = "read")
          BY <1>4, <2>3, <4>3 DEF GoesOn, CreateStep, EditStep, group, Goto, GroupTypeOK, PostNew, PostConfig, OpenFile,
             WriteFile, WriteError, LoadError, RemoveConfig, ReadTunnels, Register,
             OpenTemp, WriteTemp, WriteTempError, Rename, RenameFails
        <5> QED
          BY <2>1, <3>4, <5>1 DEF GroupInv, NameInv
      <4> QED
        BY <4>1, <4>2, <4>3
    <3>5. NamesUnique'
      BY <3>1, <3>2 DEF GroupInv, NameInv, NamesUnique
    <3> QED
      BY <2>1, <3>1, <3>2, <3>3, <3>4, <3>5 DEF GroupInv, NameInv
  <2> QED
    BY <2>2, <2>3
<1>5. CASE UNCHANGED vars
  BY <1>5 DEF vars, group, GroupInv, NameInv, Names, Name, NamesUnique
<1> QED
  BY <1>1, <1>2, <1>3, <1>4, <1>5, KindsOfSteps

-----------------------------------------------------------------------------
\* What a request that goes on changes of files, temporary files and settings is
\* that of the name in its form.
OnlyItsOwn(n) ==
  /\ \A m \in Tunnels \ {n} : UNCHANGED <<file[m], temp[m], acknowledged[m]>>
  /\ \A i \in DOMAIN tunnels : Name(tunnels[i]) # n => memory'[tunnels[i]] = memory[tunnels[i]]

LEMMA GoesOnAlone ==
  ASSUME Serial, GroupTypeOK, GroupInv, NEW r \in Requests, GoesOn(r),
         NEW n, form[r].name = n
  PROVE  OnlyItsOwn(n)
<1> USE DEF OnlyItsOwn, GroupTypeOK
<1>1. CASE Load(r)
  <2>1. \A i \in DOMAIN tunnels : tunnels[i] # r
    BY <1>1 DEF Load, Goto, GroupInv, ListInv
  <2> QED
    BY <1>1, <2>1 DEF Load, disk
<1>2. CASE SetOptions(r) \/ SetOptionsError(r)
  <2>1. PICK i \in DOMAIN tunnels : Name(tunnels[i]) = n /\ Controller(n) = tunnels[i]
    BY <1>2, EditedTunnel DEF SetOptions, SetOptionsError, Goto, Editing
  <2>2. \/ UNCHANGED memory
        \/ \E settings : memory' = [memory EXCEPT ![tunnels[i]] = settings]
    BY <1>2, <2>1 DEF SetOptions, SetOptionsError
  <2>3. ASSUME NEW j \in DOMAIN tunnels, Name(tunnels[j]) # n
        PROVE  memory'[tunnels[j]] = memory[tunnels[j]]
    <3>1. tunnels[j] # tunnels[i] /\ tunnels[j] \in DOMAIN memory
      BY <2>1, <2>3 DEF GroupInv, ListInv
    <3> QED
      BY <2>2, <3>1
  <2> QED
    BY <1>2, <2>3 DEF SetOptions, SetOptionsError, disk
<1>3. CASE OpenFile(r) \/ WriteFile(r) \/ WriteError(r) \/ LoadError(r) \/ RemoveConfig(r) \/ ReadTunnels(r)
  BY <1>3 DEF OpenFile, WriteFile, WriteError, LoadError, RemoveConfig, ReadTunnels, group, disk
<1>4. CASE WriteTunnels(r) \/ Register(r)
  BY <1>4 DEF WriteTunnels, Register, disk
<1>5. CASE OpenTemp(r) \/ WriteTemp(r) \/ WriteTempError(r) \/ Rename(r) \/ RenameFails(r)
  BY <1>5 DEF OpenTemp, OpenForSave, WriteTemp, WriteTempError, Rename, RenameFails, CleanUp, RenameError,
     group, disk
<1> QED
  BY <1>1, <1>2, <1>3, <1>4, <1>5
  DEF GoesOn, InFlight, Creating, Editing, Goto, CreateStep, EditStep, PostNew, PostConfig

\* While a tunnel is created, its file is whole only between the write and the end.
LEMMA WholeWhileMade ==
  ASSUME GroupInv, NEW r \in Requests, pc[r] \in Pending, Whole(file[form[r].name])
  PROVE  pc[r] \in {"load", "remove", "read", "append"}
<1> DEFINE n == form[r].name
<1>1. pc[r] \in Creating /\ InFlight(r)
  BY DEF Pending, InFlight
<1>2. up /\ n \in Tunnels /\ n \notin Names
  BY <1>1 DEF GroupInv, RequestInv, NameInv
<1>3. MakingOf(n) # {}
  BY <1>2 DEF GroupInv, FileInv, UnlistedInv
<1>4. PICK q \in Requests : pc[q] \in {"load", "remove", "read", "append"}
  BY <1>3 DEF MakingOf
<1>5. q = r
  BY <1>1, <1>4 DEF GroupInv, RequestInv, Creating
<1> QED
  BY <1>4, <1>5

\* What a request that goes on does to its own tunnel: before the tunnel is in the
\* list it may do with the file as it likes, afterwards the file changes only with
\* what is acknowledged, and a whole file is never seen torn.
OwnStep(r, n, v) ==
  /\ pc'[r] \in Written => Whole(file'[n]) /\ file'[n].saved = v
  /\ pc'[r] \in {"openTemp", "writeTemp"} =>
       \A i \in DOMAIN tunnels : Name(tunnels[i]) = n => memory'[tunnels[i]].saved = v
  /\ pc'[r] = "rename" => temp'[n] \in Settings /\ temp'[n].saved = v
  /\ pc[r] \in Pending =>
       /\ n \notin Names /\ acknowledged'[n] = acknowledged[n]
       /\ Whole(file'[n]) => pc'[r] \in {"load", "remove", "read", "append", "register"}
  /\ pc[r] \notin Pending =>
       /\ n \in Names
       /\ \/ file'[n] = file[n] /\ acknowledged'[n] = acknowledged[n]
          \/ file'[n] \in Settings /\ acknowledged'[n] = file'[n].saved
  /\ Whole(file[n]) => file'[n] # Torn

LEMMA GoesOnOwn ==
  ASSUME Serial, GroupTypeOK, GroupInv, NEW r \in Requests, GoesOn(r),
         NEW n \in Tunnels, NEW v \in Values, form[r] = [name |-> n, value |-> v]
  PROVE  OwnStep(r, n, v)
<1>0. /\ form[r].name = n /\ form[r].value = v
      /\ pc[r] \in Pending => n \notin Names
      /\ pc[r] \in {"register"} \cup Editing => n \in Names
      /\ pc[r] \in Written => Whole(file[n]) /\ file[n].saved = v
      /\ pc[r] \in Pending /\ Whole(file[n]) => pc[r] \in {"load", "remove", "read", "append"}
  <2>1. form[r].name = n /\ form[r].value = v
    OBVIOUS
  <2> QED
    BY <2>1, WholeWhileMade DEF GroupInv, NameInv, FileInv, WrittenInv, Editing
<1> USE <1>0 DEF OwnStep, GroupTypeOK, Goto, Written, Pending, Creating, Editing
<1>1. CASE OpenFile(r)
  <2>1. /\ pc[r] = "open" /\ pc'[r] = "write" /\ file'[n] = Torn /\ acknowledged' = acknowledged
    BY <1>1 DEF OpenFile
  <2> QED
    BY <2>1 DEF Whole
<1>2. CASE WriteFile(r)
  <2>1. /\ pc[r] = "write" /\ pc'[r] = "load" /\ acknowledged' = acknowledged
        /\ file'[n] = [saved |-> v, other |-> Default]
    BY <1>2 DEF WriteFile
  <2>2. file'[n] \in Settings /\ file'[n].saved = v
    BY <2>1 DEF Settings
  <2>3. Whole(file'[n]) /\ file'[n] # Torn
    BY <2>2, FilesAssumption DEF Whole
  <2> QED
    BY <2>1, <2>2, <2>3
<1>3. CASE WriteError(r) \/ Load(r) \/ LoadError(r)
  <2>1. file' = file /\ acknowledged' = acknowledged
    BY <1>3 DEF WriteError, Load, LoadError, disk
  <2>2. \/ pc[r] \in {"open", "write", "load"} /\ pc'[r] \in {"over", "remove"}
        \/ pc[r] = "load" /\ pc'[r] = "read"
    BY <1>3 DEF WriteError, Load, LoadError
  <2>3. pc[r] \in {"open", "write"} => pc'[r] = "over"
    BY <1>3 DEF WriteError, Load, LoadError
  <2>4. pc[r] = "load" => pc'[r] \in {"read", "remove"}
    BY <1>3 DEF WriteError, Load, LoadError
  <2> QED
    BY <2>1, <2>2, <2>3, <2>4 DEF Whole
<1>4. CASE ReadTunnels(r) \/ WriteTunnels(r)
  <2>1. file' = file /\ acknowledged' = acknowledged
    BY <1>4 DEF ReadTunnels, WriteTunnels, disk
  <2>2. \/ pc[r] = "read" /\ pc'[r] = "append"
        \/ pc[r] = "append" /\ pc'[r] = "register"
    BY <1>4 DEF ReadTunnels, WriteTunnels
  <2> QED
    BY <2>1, <2>2 DEF Whole
<1>5. CASE RemoveConfig(r)
  <2>1. /\ pc[r] = "remove" /\ pc'[r] = "over" /\ file'[n] = None /\ acknowledged' = acknowledged
    BY <1>5 DEF RemoveConfig
  <2> QED
    BY <2>1, FilesAssumption DEF Whole
<1>6. CASE Register(r)
  <2>1. /\ pc[r] = "register" /\ pc'[r] = "over" /\ file' = file /\ acknowledged'[n] = v
    BY <1>6 DEF Register, disk
  <2>2. file[n] \in Settings /\ file[n].saved = v
    BY <2>1 DEF Whole
  <2> QED
    BY <2>1, <2>2 DEF Whole
<1>7. CASE SetOptions(r)
  <2>1. PICK i \in DOMAIN tunnels : /\ Controller(n) = tunnels[i] /\ Name(tunnels[i]) = n
                                    /\ memory[tunnels[i]] \in Settings
    BY <1>7, EditedTunnel DEF SetOptions
  <2>2. /\ pc[r] = "apply" /\ pc'[r] = "openTemp" /\ file' = file /\ acknowledged' = acknowledged
        /\ memory' = [memory EXCEPT ![tunnels[i]] = [saved |-> v, other |-> v]]
    BY <1>7, <2>1 DEF SetOptions, disk
  <2>3. tunnels[i] \in DOMAIN memory
    BY DEF GroupInv, ListInv
  <2>4. memory'[tunnels[i]].saved = v
    BY <2>2, <2>3
  <2>5. \A j \in DOMAIN tunnels : Name(tunnels[j]) = n => tunnels[j] = tunnels[i]
    BY <2>1 DEF GroupInv, NameInv, NamesUnique
  <2> QED
    BY <2>2, <2>4, <2>5 DEF Whole
<1>8. CASE SetOptionsError(r) \/ WriteTempError(r)
  <2>1. pc[r] \in Editing /\ pc'[r] = "over" /\ file' = file /\ acknowledged' = acknowledged
    BY <1>8 DEF SetOptionsError, WriteTempError, disk
  <2> QED
    BY <2>1 DEF Whole
<1>9. CASE OpenTemp(r)
  <2>1. /\ pc[r] = "openTemp" /\ pc'[r] = "writeTemp" /\ file' = file /\ memory' = memory
        /\ acknowledged' = acknowledged
    BY <1>9 DEF OpenTemp, OpenForSave, group
  <2>2. \A i \in DOMAIN tunnels : Name(tunnels[i]) = n => memory'[tunnels[i]].saved = v
    BY <2>1 DEF GroupInv, FileInv, AppliedInv
  <2> QED
    BY <2>1, <2>2 DEF Whole
<1>10. CASE WriteTemp(r)
  <2>1. PICK i \in DOMAIN tunnels : Controller(n) = tunnels[i] /\ Name(tunnels[i]) = n
    BY <1>10, EditedTunnel DEF WriteTemp
  <2>2. memory[tunnels[i]].saved = v
    BY <1>10, <2>1 DEF WriteTemp, GroupInv, FileInv, AppliedInv
  <2>3. /\ pc[r] = "writeTemp" /\ pc'[r] = "rename" /\ file' = file /\ acknowledged' = acknowledged
        /\ temp'[n] = [saved |-> v, other |-> Default]
    BY <1>10, <2>1, <2>2 DEF WriteTemp
  <2>4. temp'[n] \in Settings /\ temp'[n].saved = v
    BY <2>3 DEF Settings
  <2> QED
    BY <2>3, <2>4 DEF Whole
<1>11. CASE Rename(r)
  <2>1. /\ pc[r] = "rename" /\ pc'[r] = "over" /\ file'[n] = temp[n] /\ acknowledged'[n] = v
    BY <1>11 DEF Rename
  <2>2. temp[n] \in Settings /\ temp[n].saved = v
    BY <2>1 DEF GroupInv, FileInv, TempInv
  <2>3. temp[n] # Torn
    BY <2>2, FilesAssumption
  <2> QED
    BY <2>1, <2>2, <2>3
<1>12. CASE RenameFails(r)
  <2>1. pc[r] = "rename" /\ pc'[r] = "over" /\ file' = file /\ acknowledged' = acknowledged
    BY <1>12 DEF RenameFails, CleanUp, RenameError
  <2> QED
    BY <2>1 DEF Whole
<1> QED
  BY <1>1, <1>2, <1>3, <1>4, <1>5, <1>6, <1>7, <1>8, <1>9, <1>10, <1>11, <1>12
  DEF GoesOn, InFlight, CreateStep, EditStep, PostNew, PostConfig

\* A request that goes on adds at most its own name to the list, and only by writing it.
LEMMA NamesGoOn ==
  ASSUME Serial, GroupTypeOK, GroupInv, NEW r \in Requests, GoesOn(r),
         NEW n, form[r].name = n
  PROVE  /\ Names \subseteq Names' /\ Names' \subseteq Names \cup {n}
         /\ Names' # Names => pc'[r] = "register"
         /\ pc[r] # "append" => tunnels' = tunnels
         /\ \A i \in DOMAIN tunnels' : Name(tunnels[i])' # n =>
              i \in DOMAIN tunnels /\ tunnels'[i] = tunnels[i] /\ Name(tunnels[i])' = Name(tunnels[i])
<1>1. CASE WriteTunnels(r)
  <2>1. pc[r] = "append" /\ pc'[r] = "register"
    BY <1>1 DEF WriteTunnels, Goto, GroupTypeOK
  <2>2. \A i \in DOMAIN tunnels' : i \notin DOMAIN tunnels => Name(tunnels[i])' = n
    <3>1. ASSUME NEW i \in DOMAIN tunnels', i \notin DOMAIN tunnels PROVE Name(tunnels[i])' = n
      <4>1. tunnels'[i] = r /\ Name(r)' = n
        BY <1>1, <3>1, NamesGrow
      <4> QED
        BY <4>1, GroupNamesAssumption DEF Name
    <3> QED
      BY <3>1
  <2> QED
    BY <1>1, <2>1, <2>2, NamesGrow
<1>2. CASE ~WriteTunnels(r)
  <2>1. UNCHANGED tunnels
    BY <1>2 DEF GoesOn, CreateStep, EditStep, group, PostNew, PostConfig, OpenFile,
       WriteFile, WriteError, Load, LoadError, RemoveConfig, ReadTunnels, Register, SetOptions,
       SetOptionsError, OpenTemp, WriteTemp, WriteTempError, Rename, RenameFails
  <2> QED
    BY <2>1, NamesStay
<1> QED
  BY <1>1, <1>2

\* A request that goes on leaves every file as it must be.
LEMMA FileGoesOn ==
  ASSUME Serial, GroupTypeOK, GroupInv, NameInv', NEW r \in Requests, GoesOn(r)
  PROVE  FileInv' /\ \A m \in Tunnels : Whole(file[m]) => file'[m] # Torn
<1>1. PICK n \in Tunnels, v \in Values : form[r] = [name |-> n, value |-> v]
  BY DEF GoesOn, GroupInv, RequestInv
<1>2. form[r].name = n /\ form[r].value = v /\ up /\ InFlight(r)
  BY <1>1 DEF GoesOn, GroupInv, RequestInv
<1>3. OwnStep(r, n, v) /\ OnlyItsOwn(n)
  BY <1>1, <1>2, GoesOnOwn, GoesOnAlone
<1>4. /\ UNCHANGED <<up, form>> /\ \A q \in Requests : q # r => pc'[q] = pc[q]
      /\ pc'[r] \in Editing => pc[r] \in Editing
  BY GoesOnShape
<1>5. /\ Names \subseteq Names' /\ Names' \subseteq Names \cup {n}
      /\ Names' # Names => pc'[r] = "register"
      /\ pc[r] # "append" => tunnels' = tunnels
      /\ \A i \in DOMAIN tunnels' : Name(tunnels[i])' # n =>
           i \in DOMAIN tunnels /\ tunnels'[i] = tunnels[i] /\ Name(tunnels[i])' = Name(tunnels[i])
  BY <1>2, NamesGoOn
<1>6. \A m \in Tunnels \ {n} : file'[m] = file[m] /\ temp'[m] = temp[m] /\ acknowledged'[m] = acknowledged[m]
  BY <1>3 DEF OnlyItsOwn
<1>7. \A x \in Settings : Whole(x)
  BY FilesAssumption DEF Whole
<1>8. Names \subseteq Tunnels
  BY DEF Names, Name, GroupInv, ListInv, Controllers
\* What is in flight for another request is of another name.
<1>9. ASSUME NEW q \in Requests, q # r, InFlight(q)
      PROVE  form[q].name \in Tunnels \ {n}
  BY <1>2, <1>9 DEF GroupInv, RequestInv
<1>10. TunnelHasFile'
  <2>1. \A m \in Names : Whole(file[m])
    BY DEF GroupInv, FileInv, TunnelHasFile
  <2>2. n \in Names' => Whole(file'[n])
    BY <1>3, <1>5, <1>7, <2>1 DEF OwnStep, Written, Pending
  <2> QED
    BY <1>5, <1>6, <1>8, <2>1, <2>2 DEF TunnelHasFile, Whole
<1>11. WrittenInv'
  <2>1. ASSUME NEW q \in Requests, pc'[q] \in Written
        PROVE  Whole(file'[form[q].name]) /\ file'[form[q].name].saved = form[q].value
    <3>1. CASE q = r
      BY <1>2, <1>3, <2>1, <3>1 DEF OwnStep
    <3>2. CASE q # r
      <4>1. pc[q] \in Written /\ InFlight(q)
        BY <1>4, <2>1, <3>2 DEF Written, InFlight, Creating
      <4> QED
        BY <1>6, <1>9, <3>2, <4>1 DEF GroupInv, FileInv, WrittenInv
    <3> QED
      BY <3>1, <3>2
  <2> QED
    BY <1>4, <2>1 DEF WrittenInv, Whole
<1>12. AppliedInv'
  <2>1. ASSUME NEW q \in Requests, NEW i \in DOMAIN tunnels', pc'[q] \in {"openTemp", "writeTemp"},
               Name(tunnels[i])' = form[q].name
        PROVE  memory'[tunnels'[i]].saved = form[q].value
    <3>1. CASE q = r
      <4>1. tunnels' = tunnels
        BY <1>4, <1>5, <2>1, <3>1 DEF Editing
      <4>2. Name(tunnels[i]) = n
        BY <1>2, <1>4, <2>1, <3>1, <4>1 DEF Name
      <4> QED
        BY <1>2, <1>3, <2>1, <3>1, <4>1, <4>2 DEF OwnStep
    <3>2. CASE q # r
      <4>1. pc[q] \in {"openTemp", "writeTemp"} /\ InFlight(q)
        BY <1>4, <2>1, <3>2 DEF InFlight, Editing
      <4>2. Name(tunnels[i])' # n
        BY <1>9, <2>1, <3>2, <4>1
      <4>3. i \in DOMAIN tunnels /\ tunnels'[i] = tunnels[i] /\ Name(tunnels[i]) = form[q].name
        BY <1>5, <2>1, <4>2
      <4>4. memory'[tunnels[i]] = memory[tunnels[i]]
        BY <1>3, <1>9, <3>2, <4>1, <4>3 DEF OnlyItsOwn
      <4> QED
        BY <4>1, <4>3, <4>4 DEF GroupInv, FileInv, AppliedInv
    <3> QED
      BY <3>1, <3>2
  <2> QED
    BY <1>4, <2>1 DEF AppliedInv
<1>13. TempInv'
  <2>1. ASSUME NEW q \in Requests, pc'[q] = "rename"
        PROVE  temp'[form[q].name] \in Settings /\ temp'[form[q].name].saved = form[q].value
    <3>1. CASE q = r
      BY <1>2, <1>3, <2>1, <3>1 DEF OwnStep
    <3>2. CASE q # r
      <4>1. pc[q] = "rename" /\ InFlight(q)
        BY <1>4, <2>1, <3>2 DEF InFlight, Editing
      <4> QED
        BY <1>6, <1>9, <3>2, <4>1 DEF GroupInv, FileInv, TempInv
    <3> QED
      BY <3>1, <3>2
  <2> QED
    BY <1>4, <2>1 DEF TempInv
<1>14. UnlistedInv'
  <2>1. ASSUME NEW m \in Tunnels \ Names'
        PROVE  acknowledged'[m] = None /\ (Whole(file'[m]) => MakingOf(m)' # {})
    <3>1. m \notin Names /\ acknowledged[m] = None /\ (Whole(file[m]) => MakingOf(m) # {})
      BY <1>2, <1>5 DEF GroupInv, FileInv, UnlistedInv
    <3>2. CASE m = n
      <4>1. pc[r] \in Pending
        BY <1>3, <3>1, <3>2 DEF OwnStep
      <4>2. pc'[r] # "register"
        BY <1>2, <1>4, <2>1, <3>2 DEF NameInv
      <4>3. Whole(file'[n]) => pc'[r] \in {"load", "remove", "read", "append"}
        BY <1>3, <4>1, <4>2 DEF OwnStep
      <4>4. pc'[r] \in {"load", "remove", "read", "append"} => r \in MakingOf(n)'
        BY <1>2, <1>4 DEF MakingOf
      <4>5. acknowledged'[n] = acknowledged[n]
        BY <1>3, <4>1 DEF OwnStep
      <4> QED
        BY <3>1, <3>2, <4>3, <4>4, <4>5
    <3>3. CASE m # n
      <4>1. file'[m] = file[m] /\ acknowledged'[m] = acknowledged[m]
        BY <1>6, <3>3
      <4>2. \A q \in MakingOf(m) : q \in MakingOf(m)'
        BY <1>2, <1>4, <3>3 DEF MakingOf
      <4> QED
        BY <3>1, <4>1, <4>2
    <3> QED
      BY <3>2, <3>3
  <2> QED
    BY <2>1 DEF UnlistedInv, Whole
<1>15. AcknowledgedSurvives'
  <2>1. ASSUME NEW m \in Tunnels, acknowledged'[m] # None
        PROVE  Whole(file'[m]) /\ file'[m].saved = acknowledged'[m]
    <3>1. acknowledged[m] # None => Whole(file[m]) /\ file[m].saved = acknowledged[m]
      BY DEF GroupInv, FileInv, AcknowledgedSurvives
    <3>2. CASE m # n
      BY <1>6, <2>1, <3>1, <3>2
    <3>3. CASE m = n
      <4>1. pc[r] \in Pending => acknowledged'[n] = None
        <5>1. n \notin Names => acknowledged[n] = None
          BY <1>2 DEF GroupInv, FileInv, UnlistedInv
        <5> QED
          BY <1>3, <5>1 DEF OwnStep
      <4>2. \/ file'[n] = file[n] /\ acknowledged'[n] = acknowledged[n]
            \/ file'[n] \in Settings /\ acknowledged'[n] = file'[n].saved
        BY <1>3, <2>1, <3>3, <4>1 DEF OwnStep
      <4> QED
        BY <1>7, <2>1, <3>1, <3>3, <4>2
    <3> QED
      BY <3>2, <3>3
  <2> QED
    BY <2>1 DEF AcknowledgedSurvives, Whole
<1>16. \A m \in Tunnels : Whole(file[m]) => file'[m] # Torn
  BY <1>3, <1>6 DEF OwnStep, Whole
<1> QED
  BY <1>10, <1>11, <1>12, <1>13, <1>14, <1>15, <1>16 DEF FileInv

\* Every file stays as it must be, whatever fails or crashes.
LEMMA FileSteps ==
  ASSUME Serial, GroupTypeOK, GroupInv, NameInv', [Next]_vars
  PROVE  FileInv' /\ \A m \in Tunnels : Whole(file[m]) => file'[m] # Torn
<1>1. CASE Crash
  <2>1. ~up' /\ tunnels' = << >> /\ Names' = {} /\ \A r \in Requests : pc'[r] \in {"idle", "over"}
    BY <1>1, CrashLeaves
  <2>2. UNCHANGED <<file, temp, acknowledged>>
    BY <1>1 DEF Crash, disk
  <2>3. AcknowledgedSurvives'
    BY <2>2 DEF GroupInv, FileInv, AcknowledgedSurvives, Whole
  <2>4. TunnelHasFile' /\ WrittenInv' /\ AppliedInv' /\ TempInv' /\ UnlistedInv'
    BY <2>1 DEF TunnelHasFile, WrittenInv, AppliedInv, TempInv, UnlistedInv, Written
  <2> QED
    BY <2>2, <2>3, <2>4 DEF FileInv, Whole
<1>2. CASE NewControllerGroup
  <2>1. /\ UNCHANGED <<file, temp, pc, form, acknowledged>> /\ \A r \in Requests : ~InFlight(r)
        /\ Names' = Present(file) /\ \A n \in Present(file) : Whole(file[n])
    BY <1>2, RestartLoads DEF disk
  <2>2. AcknowledgedSurvives'
    BY <2>1 DEF GroupInv, FileInv, AcknowledgedSurvives, Whole
  <2>3. TunnelHasFile'
    BY <2>1 DEF TunnelHasFile, Whole
  <2>4. WrittenInv' /\ AppliedInv' /\ TempInv'
    BY <2>1 DEF WrittenInv, AppliedInv, TempInv, Written, InFlight, Creating, Editing
  <2>5. ASSUME NEW m \in Tunnels \ Names' PROVE acknowledged'[m] = None /\ ~Whole(file'[m])
    <3>1. file[m] = None
      BY <2>1, <2>5 DEF Present
    <3> QED
      BY <2>1, <3>1 DEF GroupInv, FileInv, AcknowledgedSurvives, Whole
  <2>6. UnlistedInv'
    BY <2>5 DEF UnlistedInv, Whole
  <2> QED
    BY <2>1, <2>2, <2>3, <2>4, <2>6 DEF FileInv, Whole
<1>3. ASSUME NEW r \in Requests, Posts(r)
      PROVE  FileInv' /\ \A m \in Tunnels : Whole(file[m]) => file'[m] # Torn
  <2>1. /\ up /\ UNCHANGED <<up, tunnels, memory, file, temp, acknowledged>>
        /\ pc[r] = "idle" /\ pc'[r] \in {"open", "apply"}
        /\ \A q \in Requests : q # r => UNCHANGED <<pc[q], form[q]>>
    BY <1>3, PostsShape DEF group, disk
  <2>2. Names' = Names /\ \A i \in DOMAIN tunnels : Name(tunnels[i])' = Name(tunnels[i])
    BY <1>3, <2>1, NamesStay
  <2>3. TunnelHasFile' /\ AcknowledgedSurvives'
    BY <2>1, <2>2 DEF GroupInv, FileInv, TunnelHasFile, AcknowledgedSurvives, Whole
  <2>4. WrittenInv' /\ TempInv'
    BY <2>1 DEF GroupInv, FileInv, WrittenInv, TempInv, Whole, Written
  <2>5. AppliedInv'
    BY <2>1, <2>2 DEF GroupInv, FileInv, AppliedInv
  <2>6. UnlistedInv'
    <3>1. ASSUME NEW m \in Tunnels \ Names'
          PROVE  acknowledged'[m] = None /\ (Whole(file'[m]) => MakingOf(m)' # {})
      <4>1. acknowledged[m] = None /\ (Whole(file[m]) => MakingOf(m) # {})
        BY <2>1, <2>2 DEF GroupInv, FileInv, UnlistedInv
      <4>2. \A q \in MakingOf(m) : q \in MakingOf(m)'
        BY <2>1 DEF MakingOf
      <4> QED
        BY <2>1, <4>1, <4>2
    <3> QED
      BY <3>1 DEF UnlistedInv, Whole
  <2> QED
    BY <2>1, <2>3, <2>4, <2>5, <2>6 DEF FileInv, Whole
<1>4. ASSUME NEW r \in Requests, GoesOn(r)
      PROVE  FileInv' /\ \A m \in Tunnels : Whole(file[m]) => file'[m] # Torn
  BY <1>4, FileGoesOn
<1>5. CASE UNCHANGED vars
  BY <1>5 DEF vars, group, disk, GroupInv, FileInv, TunnelHasFile, WrittenInv, AppliedInv, TempInv, UnlistedInv,
     AcknowledgedSurvives, MakingOf, Names, Name, Whole
<1> QED
  BY <1>1, <1>2, <1>3, <1>4, <1>5, KindsOfSteps

-----------------------------------------------------------------------------
\* The program begins as NewControllerGroup leaves it.
LEMMA GroupStarts ==
  ASSUME Init
  PROVE  GroupTypeOK /\ GroupInv
<1>1. Present(file) \subseteq Tunnels /\ IsFiniteSet(Present(file))
  BY FilesAssumption, FS_Subset DEF Present
<1>2. /\ tunnels \in Seq(Present(file))
      /\ \A i, j \in DOMAIN tunnels : tunnels[i] = tunnels[j] => i = j
      /\ {tunnels[i] : i \in DOMAIN tunnels} = Present(file)
  BY <1>1, SetToSeqLists DEF Init
<1>3. tunnels \in Seq(Controllers)
  <2>1. Present(file) \subseteq Controllers
    BY <1>1 DEF Controllers
  <2> QED
    BY <1>2, <2>1
<1>4. \A n \in Tunnels : file[n] # None => file[n] \in Settings /\ Whole(file[n])
  BY FilesAssumption DEF Init, Settings, Whole
<1>5. memory \in [Controllers -> Settings \cup {None}] /\ \A n \in Present(file) : memory[n] \in Settings
  BY <1>1, <1>4 DEF Init, LoadedFrom, Present, Controllers
<1>6. file \in [Tunnels -> Settings \cup {None, Torn}]
  BY DEF Init, Settings
<1>7. GroupTypeOK
  BY <1>1, <1>3, <1>5, <1>6, GroupBoundAssumption, EmptySeq DEF Init, GroupTypeOK
<1>8. \A i \in DOMAIN tunnels : tunnels[i] \in Present(file) /\ Name(tunnels[i]) = tunnels[i]
  BY <1>1, <1>2 DEF Name
<1>9. Names = Present(file)
  BY <1>2, <1>8 DEF Names
<1>10. \A r \in Requests : pc[r] = "idle"
  BY DEF Init
<1>11. RequestInv
  BY <1>10 DEF RequestInv, InFlight, Creating, Editing
<1>12. ListInv
  <2>1. up
    BY DEF Init
  <2>2. \A i \in DOMAIN tunnels : tunnels[i] \notin Requests
    BY <1>1, <1>8, GroupNamesAssumption
  <2> QED
    BY <1>3, <1>5, <1>8, <2>1, <2>2 DEF ListInv
<1>13. NameInv
  BY <1>2, <1>8, <1>10 DEF NameInv, NamesUnique, Pending, Creating, Editing
<1>14. FileInv
  <2>1. TunnelHasFile
    BY <1>4, <1>9 DEF TunnelHasFile, Present
  <2>2. WrittenInv /\ AppliedInv /\ TempInv
    BY <1>10 DEF WrittenInv, AppliedInv, TempInv, Written
  <2>3. \A n \in Tunnels : acknowledged[n] = None
    BY DEF Init
  <2>4. UnlistedInv /\ AcknowledgedSurvives
    BY <1>9, <2>3 DEF UnlistedInv, AcknowledgedSurvives, Present, Whole
  <2> QED
    BY <2>1, <2>2, <2>4 DEF FileInv
<1> QED
  BY <1>7, <1>11, <1>12, <1>13, <1>14 DEF GroupInv

\* With users that create one tunnel at a time, requests, the list, the names and the
\* files stay as GroupInv relates them, through errors and crashes.
THEOREM GroupInvariant ==
  ASSUME Serial
  PROVE  Spec => [](GroupTypeOK /\ GroupInv)
<1>1. Init => GroupTypeOK /\ GroupInv
  BY GroupStarts
<1>2. GroupTypeOK /\ GroupInv /\ [Next]_vars => (GroupTypeOK /\ GroupInv)'
  <2> SUFFICES ASSUME GroupTypeOK, GroupInv, [Next]_vars PROVE (GroupTypeOK /\ GroupInv)'
    OBVIOUS
  <2>1. GroupTypeOK'
    BY GroupTypeSteps
  <2>2. RequestInv' /\ ListInv' /\ NameInv'
    BY RequestSteps, ListSteps, NameSteps
  <2>3. FileInv'
    BY <2>2, FileSteps
  <2> QED
    BY <2>1, <2>2, <2>3 DEF GroupInv
<1> QED
  BY <1>1, <1>2, PTL DEF Spec

\* With them every variable has its type.
THEOREM GroupTypeCorrect ==
  ASSUME Serial
  PROVE  Spec => []GroupTypeOK
BY GroupInvariant, PTL

\* NewController, saveConfig: every tunnel in the list can be loaded again, whatever
\* creation or edit fails and whenever the process crashes.
THEOREM TunnelHasFileCorrect ==
  ASSUME Serial
  PROVE  Spec => []TunnelHasFile
<1>1. GroupInv => TunnelHasFile
  BY DEF GroupInv, FileInv
<1> QED
  BY <1>1, GroupInvariant, PTL

\* validateNewTunnelForm: no two tunnels share a name, although the name is checked
\* long before the list is written.
THEOREM NamesUniqueCorrect ==
  ASSUME Serial
  PROVE  Spec => []NamesUnique
<1>1. GroupInv => NamesUnique
  BY DEF GroupInv, NameInv
<1> QED
  BY <1>1, GroupInvariant, PTL

\* What a user was told is saved is on the disk ever after: no later form that fails
\* and no crash takes it away.
THEOREM AcknowledgedSurvivesCorrect ==
  ASSUME Serial
  PROVE  Spec => []AcknowledgedSurvives
<1>1. GroupInv => AcknowledgedSurvives
  BY DEF GroupInv, FileInv
<1> QED
  BY <1>1, GroupInvariant, PTL

\* saveConfig replaces a whole file by a whole one; only a creation that failed takes
\* its own file away: a whole file is never seen torn.
THEOREM FilesStayWholeCorrect ==
  ASSUME Serial
  PROVE  Spec => FilesStayWhole
<1>1. ASSUME GroupTypeOK, GroupInv, [Next]_vars
      PROVE  [\A n \in Tunnels : Whole(file[n]) => file'[n] # Torn]_vars
  BY <1>1, NameSteps, FileSteps
<1> QED
  BY <1>1, GroupInvariant, PTL DEF Spec, FilesStayWhole
=============================================================================
