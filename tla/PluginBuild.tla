----------------------------- MODULE PluginBuild -----------------------------
(***************************************************************************)
(* The development tool on one plugin project: `new` writes its files,     *)
(* `build` has cargo compile it, encodes the component and packages it,    *)
(* `package` packages the component that is there.  Commands run while the *)
(* developer edits the project, several of them at a time, and may be      *)
(* killed.  A package is written to a temporary file of its command,       *)
(* validated there and renamed; every other file is written in place.      *)
(***************************************************************************)
EXTENDS Integers, Sequences

CONSTANTS Commands, MaxRevision     \* bounds the developer's edits

VARIABLES project,      \* the revision of each file; 0: missing, Torn: not whole
          core,         \* the revision of the source that cargo has compiled
          component,    \* the revision of it in component.wasm
          packages,     \* what the package of each version holds: [manifest, component]
          temp,         \* what the temporary package of each command holds
          pc,           \* what each command is doing
          mem           \* what each command has read, and its history

vars == <<project, core, component, packages, temp, pc, mem>>

Torn == -1
Whole(revision) == revision >= 1

\* In the order of their creation.  The other files of a project go into no package.
Order == <<"Cargo.toml", "plugin.toml", "src/lib.rs", "wit/bkm-plugin.wit">>
Files == {Order[k] : k \in DOMAIN Order}
Edited == {"plugin.toml", "src/lib.rs"}

Nothing == [manifest |-> 0, component |-> 0]
NoCommand == [version |-> 0, component |-> 0, file |-> 1, overlapped |-> FALSE, alone |-> TRUE, began |-> 0]

\* No project, or one that was created before.
Init ==
    /\ project \in {[f \in Files |-> 0], [f \in Files |-> 1]}
    /\ core = 0 /\ component = 0
    /\ packages = [v \in 1..MaxRevision |-> Nothing]
    /\ temp = [c \in Commands |-> Nothing]
    /\ pc = [c \in Commands |-> "idle"]
    /\ mem = [c \in Commands |-> NoCommand]

Goes(c, stage) == pc' = [pc EXCEPT ![c] = stage]
Ended == {"idle", "done", "failed", "killed"}
Active(c) == pc[c] \notin Ended

\* The developer saves whole files, in a project that has been created.
Edit(f) ==
    /\ Whole(project[f]) /\ project[f] < MaxRevision /\ \A c \in Commands : pc[c] \notin {"new", "fill"}
    /\ project' = [project EXCEPT ![f] = @ + 1]
    /\ UNCHANGED <<core, component, packages, temp, pc, mem>>

\* History: whether another command has run at the same time.
Started(c) ==
    [d \in Commands |->
        IF d = c THEN [NoCommand EXCEPT !.alone = \A e \in Commands : ~ Active(e),
                                        !.began = project["src/lib.rs"]]
        ELSE [mem[d] EXCEPT !.alone = @ /\ ~ Active(d)]]

(***************************************************************************)
(* new                                                                     *)
(***************************************************************************)
\* What exists is left alone, whole or not.
New(c) ==
    /\ pc[c] = "idle" /\ \A f \in Files : project[f] = 0
    /\ \A d \in Commands : pc[d] \notin {"new", "fill"}
    /\ mem' = Started(c)
    /\ Goes(c, "new")
    /\ UNCHANGED <<project, core, component, packages, temp>>

CreateFile(c) ==
    /\ pc[c] = "new"
    /\ IF mem[c].file <= Len(Order)
       THEN project' = [project EXCEPT ![Order[mem[c].file]] = Torn] /\ Goes(c, "fill")
       ELSE Goes(c, "done") /\ UNCHANGED project
    /\ UNCHANGED <<core, component, packages, temp, mem>>

FillFile(c) ==
    /\ pc[c] = "fill"
    /\ project' = [project EXCEPT ![Order[mem[c].file]] = 1]
    /\ mem' = [mem EXCEPT ![c].file = @ + 1]
    /\ Goes(c, "new")
    /\ UNCHANGED <<core, component, packages, temp>>

(***************************************************************************)
(* build and package                                                       *)
(***************************************************************************)
\* The files must be there; only the manifest is read.
CheckProject(c, command) ==
    /\ pc[c] = "idle"
    /\ \A f \in Files : project[f] # 0
    /\ Whole(project["plugin.toml"])
    /\ command = "package" => component # 0
    /\ mem' = [Started(c) EXCEPT ![c].version = project["plugin.toml"],
                                 ![c].began = IF command = "build" THEN @ ELSE 0]
    /\ Goes(c, IF command = "build" THEN "cargo" ELSE "open")
    /\ UNCHANGED <<project, core, component, packages, temp>>

\* Cargo locks its directory.  It may compile half a source to something that is no plugin.
Cargo(c) ==
    /\ pc[c] = "cargo"
    /\ \/ /\ Whole(project["Cargo.toml"]) /\ core' = project["src/lib.rs"]
          /\ Goes(c, "encode")
       \/ Goes(c, "failed") /\ UNCHANGED core
    /\ UNCHANGED <<project, component, packages, temp, mem>>

\* The encoder validates what it encodes.
Encode(c) ==
    /\ pc[c] = "encode"
    /\ IF Whole(core)
       THEN mem' = [mem EXCEPT ![c].component = core] /\ Goes(c, "write")
       ELSE Goes(c, "failed") /\ UNCHANGED mem
    /\ UNCHANGED <<project, core, component, packages, temp>>

OpenComponent(c) ==
    /\ pc[c] = "write"
    /\ component' = Torn
    /\ mem' = [mem EXCEPT ![c].overlapped = FALSE]
    /\ Goes(c, "writing")
    /\ UNCHANGED <<project, core, packages, temp>>

\* What another command has written meanwhile may be longer, and its end remains.
WriteComponent(c) ==
    /\ pc[c] = "writing"
    /\ component' \in {mem[c].component} \cup (IF mem[c].overlapped THEN {Torn} ELSE {})
    /\ mem' = [d \in Commands |-> [mem[d] EXCEPT !.overlapped = @ \/ (d # c /\ pc[d] = "writing")]]
    /\ Goes(c, "open")
    /\ UNCHANGED <<project, core, packages, temp>>

OpenTemp(c) ==
    /\ pc[c] = "open"
    /\ temp' = [temp EXCEPT ![c] = [manifest |-> Torn, component |-> Torn]]
    /\ Goes(c, "add manifest")
    /\ UNCHANGED <<project, core, component, packages, mem>>

AddManifest(c) ==
    /\ pc[c] = "add manifest"
    /\ temp' = [temp EXCEPT ![c].manifest = project["plugin.toml"]]
    /\ Goes(c, "add component")
    /\ UNCHANGED <<project, core, component, packages, mem>>

AddComponent(c) ==
    /\ pc[c] = "add component"
    /\ temp' = [temp EXCEPT ![c].component = component]
    /\ Goes(c, "validate")
    /\ UNCHANGED <<project, core, component, packages, mem>>

IsValid(package) == Whole(package.manifest) /\ Whole(package.component)

ValidateBuiltPackage(c) ==
    /\ pc[c] = "validate"
    /\ IF IsValid(temp[c])
       THEN Goes(c, "replace") /\ UNCHANGED temp
       ELSE Goes(c, "failed") /\ temp' = [temp EXCEPT ![c] = Nothing]
    /\ UNCHANGED <<project, core, component, packages, mem>>

ReplacePackageFile(c) ==
    /\ pc[c] = "replace"
    /\ packages' = [packages EXCEPT ![mem[c].version] = temp[c]]
    /\ temp' = [temp EXCEPT ![c] = Nothing]
    /\ Goes(c, "done")
    /\ UNCHANGED <<project, core, component, mem>>

\* An error of the file system: only the temporary package is removed.
Fails(c) ==
    /\ Active(c)
    /\ temp' = [temp EXCEPT ![c] = Nothing]
    /\ Goes(c, "failed")
    /\ UNCHANGED <<project, core, component, packages, mem>>

Killed(c) ==
    /\ Active(c)
    /\ Goes(c, "killed")
    /\ UNCHANGED <<project, core, component, packages, temp, mem>>

Next ==
    \/ \E f \in Edited : Edit(f)
    \/ \E c \in Commands :
          \/ New(c) \/ CreateFile(c) \/ FillFile(c)
          \/ CheckProject(c, "build") \/ CheckProject(c, "package")
          \/ Cargo(c) \/ Encode(c) \/ OpenComponent(c) \/ WriteComponent(c)
          \/ OpenTemp(c) \/ AddManifest(c) \/ AddComponent(c)
          \/ ValidateBuiltPackage(c) \/ ReplacePackageFile(c)
          \/ Fails(c) \/ Killed(c)

Spec == Init /\ [][Next]_vars
-----------------------------------------------------------------------------
(***************************************************************************)
(* Properties                                                              *)
(***************************************************************************)
\* A package in its place is whole and at least of the version that its name says; the manifest
\* may have been edited while it was built.
PackagesAreValid ==
    \A v \in DOMAIN packages :
       packages[v] # Nothing => IsValid(packages[v]) /\ packages[v].manifest >= v

\* A build during which no other command ran has packaged the source that was there when it
\* began, or a later one.
BuildsAreFresh ==
    \A c \in Commands : pc[c] = "replace" /\ mem[c].alone => temp[c].component >= mem[c].began
=============================================================================
