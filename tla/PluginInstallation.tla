------------------------ MODULE PluginInstallation ------------------------
(***************************************************************************)
(* Installed plugins: the table plugin_installations, the directory of     *)
(* managed packages beside the database, and the invocations of `bkmqb     *)
(* plugin install | update | enable | disable | remove` that change both   *)
(* (src/src/cli.rs, src/crates/plugin-host/src/storage.rs), while a bot    *)
(* starts and loads what is installed (src/src/plugins.rs).                *)
(*                                                                         *)
(* Every invocation is a process of its own.  A package is the file of one *)
(* plugin, version and hash: two instances of the same package share it.   *)
(* The options of an invocation are the invocation itself, so that the     *)
(* configuration of a row is the set of invocations it was merged from.    *)
(***************************************************************************)
EXTENDS Integers, FiniteSets

CONSTANTS
    Invocations,    \* the CLI processes
    Instances,      \* instance ids
    Packages,       \* package files, by plugin id, version and hash
    PluginOf,       \* the plugin id in the manifest of a package
    Nothing,        \* no row, no invocation, no package
    MaxClock        \* bound: how far the wall clock moves

PackageAssumption ==
    /\ PluginOf \in [Packages -> {PluginOf[p] : p \in Packages}]
    /\ Nothing \notin Invocations \cup Packages
    /\ MaxClock \in Nat

VARIABLES
    rows,       \* plugin_installations, by instance id
    files,      \* the packages in the managed directory
    lock,       \* who holds .bkmqb-plugin-lifecycle.lock
    pc, call, seen, target, \* of an invocation: its place, arguments, row read, package to clean up
    clock,      \* now_ms()
    issued,     \* history: the last updated_at_ms of an instance, also of rows since removed
    bot         \* a bot that starts: its snapshot of the rows, what it still loads

vars == <<rows, files, lock, pc, call, seen, target, clock, issued, bot>>

Row(p, config, enabled, updated) ==
    [package |-> p, config |-> config, enabled |-> enabled, updated |-> updated]

Installed == {i \in Instances : rows[i] # Nothing}
Larger(a, b) == IF a >= b THEN a ELSE b

Init ==
    /\ rows \in [Instances -> {Nothing} \cup {Row(p, {}, TRUE, 0) : p \in Packages}]
    /\ files = {rows[i].package : i \in Installed}
    /\ lock = Nothing
    /\ pc = [c \in Invocations |-> "start"]
    /\ call = [c \in Invocations |-> Nothing]
    /\ seen = [c \in Invocations |-> Nothing]
    /\ target = [c \in Invocations |-> Nothing]
    /\ clock = 1
    /\ issued = [i \in Instances |-> 0]
    /\ bot = [state |-> "off", rows |-> [i \in {} |-> Nothing]]

Goto(c, place) == pc' = [pc EXCEPT ![c] = place]
Finish(c) ==    \* the invocation ends; dropping the file gives the lock back
    /\ Goto(c, "done")
    /\ lock' = IF lock = c THEN Nothing ELSE lock
    /\ call' = [call EXCEPT ![c] = Nothing]
    /\ seen' = [seen EXCEPT ![c] = Nothing]
    /\ target' = [target EXCEPT ![c] = Nothing]
CleanUp(c, package) ==
    /\ Goto(c, "cleanup")
    /\ target' = [target EXCEPT ![c] = package]
    /\ UNCHANGED <<lock, call, seen>>

(***************************************************************************)
(* install and update up to the confirmation: the row is read before the   *)
(* lock is taken, and the user may take any time to answer.                *)
(***************************************************************************)
Accepted(op, i, p) ==
    /\ (op = "update") = (rows[i] # Nothing)
    /\ rows[i] # Nothing => PluginOf[rows[i].package] = PluginOf[p]

ReadExisting(c) ==
    /\ pc[c] = "start"
    /\ \E op \in {"install", "update"}, i \in Instances, p \in Packages :
          /\ Accepted(op, i, p)
          /\ call' = [call EXCEPT ![c] = [op |-> op, instance |-> i, package |-> p]]
          /\ seen' = [seen EXCEPT ![c] = rows[i]]
    /\ Goto(c, "confirm")
    /\ UNCHANGED <<rows, files, lock, target, clock, issued, bot>>

AskRemove(c) ==
    /\ pc[c] = "start"
    /\ \E i \in Instances : call' = [call EXCEPT ![c] = [op |-> "remove", instance |-> i]]
    /\ Goto(c, "confirm")
    /\ UNCHANGED <<rows, files, lock, seen, target, clock, issued, bot>>

LockLifecycle_Unlocked(c) ==
    /\ pc[c] = "confirm"
    /\ lock' = c
    /\ Goto(c, IF call[c].op = "remove" THEN "read" ELSE "persist")
    /\ UNCHANGED <<rows, files, call, seen, target, clock, issued, bot>>

LockLifecycle(c) ==
    /\ pc[c] = "confirm"
    /\ lock = Nothing
    /\ lock' = c
    /\ Goto(c, IF call[c].op = "remove" THEN "read" ELSE "persist")
    /\ UNCHANGED <<rows, files, call, seen, target, clock, issued, bot>>

\* The package appears under its final name by one rename, after its content is on disk.
PersistPackage(c) ==
    /\ pc[c] = "persist"
    /\ files' = files \cup {call[c].package}
    /\ Goto(c, "write")
    /\ UNCHANGED <<rows, lock, call, seen, target, clock, issued, bot>>

(***************************************************************************)
(* next_installation_timestamp and write_installation.  An install reads a *)
(* clock that has passed every stamp this instance id ever had; without    *)
(* that, a row that was removed and installed again within the same        *)
(* millisecond could carry the stamp another invocation has read.          *)
(***************************************************************************)
Stamp(c) == IF seen[c] = Nothing THEN clock ELSE Larger(clock, seen[c].updated + 1)

\* complete: all permissions are granted and the plugin accepts the configuration.
NewRow(c, complete) ==
    LET old == seen[c]
    IN Row(call[c].package,
           {c} \cup (IF old = Nothing THEN {} ELSE old.config),
           (old = Nothing \/ old.enabled) /\ complete,
           Stamp(c))

MayWrite_AnyRow(c) == (seen[c] = Nothing) = (rows[call[c].instance] = Nothing)

MayWrite(c) ==
    LET row == rows[call[c].instance]
    IN IF seen[c] = Nothing THEN row = Nothing
       ELSE row # Nothing /\ row.updated = seen[c].updated /\ Stamp(c) > row.updated

WriteInstallation(c) ==
    LET i == call[c].instance
        old == seen[c]
    IN /\ pc[c] = "write"
       /\ old = Nothing => clock > issued[i]
       /\ MayWrite(c)
       /\ \E complete \in BOOLEAN : rows' = [rows EXCEPT ![i] = NewRow(c, complete)]
       /\ issued' = [issued EXCEPT ![i] = Stamp(c)]
       /\ IF old # Nothing /\ old.package # call[c].package THEN CleanUp(c, old.package)
          ELSE Finish(c)
       /\ UNCHANGED <<files, clock, bot>>

WriteConflict(c) ==
    /\ pc[c] = "write"
    /\ ~MayWrite(c)
    /\ CleanUp(c, call[c].package)
    /\ UNCHANGED <<rows, files, clock, issued, bot>>

(***************************************************************************)
(* remove: under the lock, but `enable` and `disable` do not take it.      *)
(***************************************************************************)
ReadForRemoval(c) ==
    LET row == rows[call[c].instance]
    IN /\ pc[c] = "read"
       /\ IF row = Nothing THEN Finish(c)
          ELSE /\ seen' = [seen EXCEPT ![c] = row]
               /\ Goto(c, "remove")
               /\ UNCHANGED <<lock, call, target>>
       /\ UNCHANGED <<rows, files, clock, issued, bot>>

RemoveIfUpdated(c) ==
    LET i == call[c].instance
        row == rows[i]
    IN /\ pc[c] = "remove"
       /\ IF row # Nothing /\ row.updated = seen[c].updated
          THEN /\ rows' = [rows EXCEPT ![i] = Nothing]
               /\ CleanUp(c, seen[c].package)
          ELSE Finish(c) /\ UNCHANGED rows
       /\ UNCHANGED <<files, clock, issued, bot>>

\* cleanup_unreferenced_managed_package: looks at the rows, then deletes the file.
LookForReferences(c) ==
    /\ pc[c] = "cleanup"
    /\ IF \E i \in Installed : rows[i].package = target[c]
       THEN Finish(c)
       ELSE Goto(c, "delete") /\ UNCHANGED <<lock, call, seen, target>>
    /\ UNCHANGED <<rows, files, clock, issued, bot>>

DeletePackage(c) ==
    /\ pc[c] = "delete"
    /\ files' = files \ {target[c]}
    /\ Finish(c)
    /\ UNCHANGED <<rows, clock, issued, bot>>

\* set_installation_enabled: one transaction, no lifecycle lock.
SetEnabled(c) ==
    /\ pc[c] = "start"
    /\ \E i \in Installed, enabled \in BOOLEAN :
          LET updated == Larger(clock, rows[i].updated + 1)
          IN /\ rows' = [rows EXCEPT ![i].enabled = enabled, ![i].updated = updated]
             /\ issued' = [issued EXCEPT ![i] = updated]
    /\ Goto(c, "done")
    /\ UNCHANGED <<files, lock, call, seen, target, clock, bot>>

\* The user declines, an I/O call fails or the process ends: the lock goes with the file.
\* What has been persisted by then stays in the directory.
Stop(c) ==
    /\ pc[c] \notin {"start", "done"}
    /\ Finish(c)
    /\ UNCHANGED <<rows, files, clock, issued, bot>>

Tick ==
    /\ clock < MaxClock
    /\ clock' = clock + 1
    /\ UNCHANGED <<rows, files, lock, pc, call, seen, target, issued, bot>>

(***************************************************************************)
(* load_plugins: the enabled rows are read once, then each package in turn.*)
(* A bot takes no lifecycle lock.                                          *)
(***************************************************************************)
StartBot ==
    /\ bot.state = "off"
    /\ bot' = [state |-> "loading",
               rows |-> [i \in {j \in Installed : rows[j].enabled} |-> rows[i]]]
    /\ UNCHANGED <<rows, files, lock, pc, call, seen, target, clock, issued>>

LoadPackage(i) ==
    /\ bot.state = "loading"
    /\ i \in DOMAIN bot.rows
    /\ LET rest == [j \in DOMAIN bot.rows \ {i} |-> bot.rows[j]]
       IN bot' = IF bot.rows[i].package \in files THEN [bot EXCEPT !.rows = rest]
                 ELSE [state |-> "failed", rows |-> [j \in {i} |-> bot.rows[i]]]
    /\ UNCHANGED <<rows, files, lock, pc, call, seen, target, clock, issued>>

Loaded ==
    /\ bot.state = "loading" /\ DOMAIN bot.rows = {}
    /\ bot' = [bot EXCEPT !.state = "running"]
    /\ UNCHANGED <<rows, files, lock, pc, call, seen, target, clock, issued>>

Invocation(c) ==
    \/ ReadExisting(c) \/ AskRemove(c) \/ LockLifecycle(c)
    \/ PersistPackage(c) \/ WriteInstallation(c) \/ WriteConflict(c)
    \/ ReadForRemoval(c) \/ RemoveIfUpdated(c)
    \/ LookForReferences(c) \/ DeletePackage(c)
    \/ SetEnabled(c) \/ Stop(c)

Next ==
    \/ \E c \in Invocations : Invocation(c)
    \/ Tick
    \/ StartBot
    \/ \E i \in Instances : LoadPackage(i)
    \/ Loaded

Spec == Init /\ [][Next]_vars
----------------------------------------------------------------------------
(***************************************************************************)
(* The package of every installed row is in the managed directory, at every*)
(* moment, whatever invocations run beside each other, fail or are killed  *)
(* (cli.rs, persist_installed_package before write_installation, and       *)
(* cleanup_unreferenced_managed_package under the lifecycle lock); and a   *)
(* bot that finds a package missing has read a row that was changed since. *)
(***************************************************************************)
InstalledPackagesExist ==
    /\ \A i \in Installed : rows[i].package \in files
    /\ bot.state = "failed" => \A i \in DOMAIN bot.rows : rows[i] # bot.rows[i]

(***************************************************************************)
(* No change to an installation is lost: while a row stays, the options it *)
(* was merged from stay in it, and an update never enables what somebody   *)
(* disabled while it waited for the user; only `enable` does.  A removal   *)
(* removes the row its invocation read (cli.rs 422-461, 932-951; the       *)
(* conditions on updated_at_ms in storage.rs).                             *)
(***************************************************************************)
KeepsChanges ==
    \A i \in Installed :
       /\ rows'[i] # Nothing => rows[i].config \subseteq rows'[i].config
       /\ rows'[i] # Nothing /\ rows'[i].enabled /\ ~rows[i].enabled
             => \E c \in Invocations : pc[c] = "start" /\ pc'[c] = "done"
       /\ rows'[i] = Nothing
             => \E c \in Invocations : pc[c] = "remove" /\ seen[c] = rows[i]

NoChangeIsLost == [][KeepsChanges]_vars
============================================================================
