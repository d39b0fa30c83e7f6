--------------------------- MODULE BrowserRuntime ---------------------------
(***************************************************************************)
(* The browser that plugins use, as bkmqb browser install, check and       *)
(* remove keep it and as the bot finds it: src/src/browser.rs.             *)
(*                                                                         *)
(* A runtime is a directory named for its versions; active.json names the  *)
(* one in use.  The commands exclude each other by a lock on the home; the *)
(* bot takes no lock.  A command may fail or be killed at every step, in   *)
(* the middle of the removal of a directory too.                           *)
(***************************************************************************)
EXTENDS Integers, FiniteSets, Sequences, FiniteSetsExt, Functions

CONSTANTS
    Processes,      \* the commands
    Runtimes,       \* names of runtimes, one for each version of the program
    None,
    Parts,          \* BROWSER_DOWNLOAD_PARTS
    MaxSize         \* bound: size of the archive

\* The parts of a runtime, in the order in which they are validated.
Validated == <<"runtime.json", "worker.js", "node", "playwright", "chromium">>
Contents == Range(Validated)

VARIABLES
    runtime,        \* the directories under runtimes/: what is in them, None if there is none
    active,         \* active.json
    lock,           \* who holds .browser.lock
    op,             \* a command: its place, the runtime of its version, its staging directory
    archive,        \* the download of the browser: its size, the ranges to come, the bytes that came
    bot,            \* the bot: its place, the runtime it found, how many of its parts it has validated
    removed         \* history: runtimes whose removal was begun, and that were not put in use since

vars == <<runtime, active, lock, op, archive, bot, removed>>

NoArchive == [size |-> 0, pending |-> {}, bytes |-> {}]

Init ==
    /\ runtime = [r \in Runtimes |-> None]
    /\ active = None
    /\ lock = None
    /\ op = [p \in Processes |-> [at |-> "idle", version |-> None, staging |-> {}]]
    /\ archive = NoArchive
    /\ bot = [at |-> "off", runtime |-> None, valid |-> 0]
    /\ removed = {}

At(p, place) == op[p].at = place
Move(p, place) == op' = [op EXCEPT ![p].at = place]
Put(p, contents, place) ==
    op' = [op EXCEPT ![p].at = place, ![p].staging = @ \cup contents]
Version(p) == op[p].version

\* The command ends or is killed: its lock is given back, its staging directory is of no use.
Ends(p) ==
    /\ op' = [op EXCEPT ![p] = [at |-> "idle", version |-> None, staging |-> {}]]
    /\ lock' = None
    /\ archive' = NoArchive

(***************************************************************************)
(* acquire_lock                                                            *)
(***************************************************************************)
Start(p) ==
    /\ At(p, "idle")
    /\ lock = None
    /\ lock' = p
    /\ \E v \in Runtimes, command \in {"install", "check", "remove"} :
          op' = [op EXCEPT ![p].at = command, ![p].version = v]
    /\ UNCHANGED <<runtime, active, archive, bot, removed>>

(***************************************************************************)
(* install                                                                 *)
(***************************************************************************)
IsValid_Exists(contents) == contents # None
IsValid(contents) == contents = Contents

InstallStarts(p) ==
    /\ At(p, "install")
    /\ IF runtime[Version(p)] = None
       THEN Move(p, "download node") /\ UNCHANGED <<lock, archive>>
       ELSE IF IsValid(runtime[Version(p)]) THEN Move(p, "activate") /\ UNCHANGED <<lock, archive>>
       ELSE Ends(p)
    /\ UNCHANGED <<runtime, active, bot, removed>>

\* download_sha256 of both archives, prepare_runtime
Prepare(p) ==
    /\ At(p, "download node")
    /\ Put(p, {"node", "playwright", "worker.js"}, "download")
    /\ UNCHANGED <<runtime, active, lock, archive, bot, removed>>

(***************************************************************************)
(* download_browser_archive: ranges of equal size, fetched at once         *)
(***************************************************************************)
PartSize(size) == (size + Parts - 1) \div Parts     \* div_ceil

Ranges(size) ==
    {[first |-> k * PartSize(size), last |-> Min({(k + 1) * PartSize(size), size}) - 1] :
        k \in {k \in 0..Parts - 1 : k * PartSize(size) < size}}

StartDownload(p) ==
    /\ At(p, "download") /\ archive = NoArchive
    /\ \E size \in 1..MaxSize :
          archive' = [size |-> size, pending |-> Ranges(size), bytes |-> {}]
    /\ UNCHANGED <<runtime, active, lock, op, bot, removed>>

\* A range is tried BROWSER_DOWNLOAD_ATTEMPTS times; one that fails fails the command.
RangeArrives(p) ==
    /\ At(p, "download")
    /\ \E range \in archive.pending :
          archive' = [archive EXCEPT !.pending = @ \ {range}, !.bytes = @ \cup range.first..range.last]
    /\ UNCHANGED <<runtime, active, lock, op, bot, removed>>

IsDownloaded == archive # NoArchive /\ archive.pending = {}

\* extract_zip, finalize_runtime
Extract(p) ==
    /\ At(p, "download") /\ IsDownloaded
    /\ Put(p, {"chromium", "runtime.json"}, "check staging")
    /\ UNCHANGED <<runtime, active, lock, archive, bot, removed>>

CheckStaging(p) ==
    /\ At(p, "check staging")
    /\ IF IsValid(op[p].staging) THEN Move(p, "publish") /\ UNCHANGED <<lock, archive>> ELSE Ends(p)
    /\ UNCHANGED <<runtime, active, bot, removed>>

Publish(p) ==
    /\ At(p, "publish")
    /\ runtime' = [runtime EXCEPT ![Version(p)] = op[p].staging]
    /\ removed' = removed \ {Version(p)}
    /\ Move(p, "activate")
    /\ UNCHANGED <<active, lock, archive, bot>>

Activate(p) ==
    /\ At(p, "activate")
    /\ active' = Version(p)
    /\ removed' = removed \ {Version(p)}
    /\ Ends(p)
    /\ UNCHANGED <<runtime, bot>>

(***************************************************************************)
(* check, remove                                                           *)
(***************************************************************************)
Check(p) ==
    /\ At(p, "check")
    /\ Ends(p)
    /\ UNCHANGED <<runtime, active, bot, removed>>

\* remove_dir_all of one directory after another, entry by entry
RemoveSome(p) ==
    /\ At(p, "remove")
    /\ \E r \in Runtimes :
          /\ runtime[r] # None
          /\ IF runtime[r] = {}
             THEN runtime' = [runtime EXCEPT ![r] = None]
             ELSE \E part \in runtime[r] : runtime' = [runtime EXCEPT ![r] = @ \ {part}]
          /\ removed' = removed \cup {r}
    /\ UNCHANGED <<active, lock, op, archive, bot>>

RemoveActive(p) ==
    /\ At(p, "remove")
    /\ \A r \in Runtimes : runtime[r] = None
    /\ active' = None
    /\ Ends(p)
    /\ UNCHANGED <<runtime, bot, removed>>

Fails(p) ==
    /\ ~At(p, "idle")
    /\ Ends(p)
    /\ UNCHANGED <<runtime, active, bot, removed>>

(***************************************************************************)
(* discover_with_cancel: the bot validates the active runtime at its start *)
(***************************************************************************)
Discover ==
    /\ bot.at = "off"
    /\ active # None
    /\ bot' = IF runtime[active] = None THEN [bot EXCEPT !.at = "without"]
              ELSE [at |-> "validate", runtime |-> active, valid |-> 0]
    /\ UNCHANGED <<runtime, active, lock, op, archive, removed>>

Validate ==
    /\ bot.at = "validate"
    /\ bot' = IF bot.valid = Len(Validated) THEN [bot EXCEPT !.at = "ready"]
              ELSE IF runtime[bot.runtime] # None /\ Validated[bot.valid + 1] \in runtime[bot.runtime]
              THEN [bot EXCEPT !.valid = @ + 1]
              ELSE [bot EXCEPT !.at = "without"]
    /\ UNCHANGED <<runtime, active, lock, op, archive, removed>>

\* The bot stops, or has waited too long and cancels the validation.
BotStops ==
    /\ bot.at # "off"
    /\ bot' = [at |-> "off", runtime |-> None, valid |-> 0]
    /\ UNCHANGED <<runtime, active, lock, op, archive, removed>>

Next ==
    \/ \E p \in Processes :
          \/ Start(p)
          \/ InstallStarts(p) \/ Prepare(p) \/ StartDownload(p) \/ RangeArrives(p) \/ Extract(p)
          \/ CheckStaging(p) \/ Publish(p) \/ Activate(p)
          \/ Check(p) \/ RemoveSome(p) \/ RemoveActive(p)
          \/ Fails(p)
    \/ Discover \/ Validate \/ BotStops

Spec == Init /\ [][Next]_vars
----------------------------------------------------------------------------
(***************************************************************************)
(* A runtime that nobody removed is whole, and so is the one the bot runs: *)
(* no step of an installation shows before all of it is done, the          *)
(* installation of one version leaves the others alone, and what a killed  *)
(* removal has left of a version is not put in use again.  The browser is  *)
(* unpacked only from all the bytes of its archive, whatever its size      *)
(* (install, download_browser_archive).                                    *)
(***************************************************************************)
InstalledIsWhole ==
    /\ \A r \in Runtimes \ removed : runtime[r] \in {None, Contents}
    /\ bot.at = "ready" /\ bot.runtime \notin removed => runtime[bot.runtime] = Contents
    /\ IsDownloaded => archive.bytes = 0..archive.size - 1
=============================================================================
