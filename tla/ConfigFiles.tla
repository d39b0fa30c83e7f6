----------------------------- MODULE ConfigFiles -----------------------------
(***************************************************************************)
(* The configuration and the secrets file, and the starts of the program   *)
(* that create, read and replace them.  A start that finds no file creates *)
(* one from a template, in place; a start that has no credentials asks its *)
(* user and then replaces both files, one after the other, each by a       *)
(* temporary file that is renamed.  Setups are serialised by a lock; those *)
(* who read or create take no lock.                                        *)
(***************************************************************************)
EXTENDS Integers, Sequences

CONSTANTS Starts, Nobody,
          Pid       \* the process id of each start: containers use the same one

VARIABLES disk,     \* what the files hold: <<kind, the start that wrote it>>
          temps,    \* the names of temporary files: <<file, process id, nonce>>
          lock,     \* the start that holds the lock of the setup, or Nobody
          pc,       \* what each start is doing
          mem,      \* the nonce of each start and the secrets it would restore
          last,     \* history: the last setup that reported success
          harmed    \* history: a crash or a second failure has left the files apart

vars == <<disk, temps, lock, pc, mem, last, harmed>>

Files == {"config", "secrets"}
Missing == <<"none", Nobody>>
Partial(p) == <<"partial", p>>
Template(p) == <<"template", p>>
Setup(p) == <<"setup", p>>

Init ==
    /\ disk = [f \in Files |-> Missing]
    /\ temps = {} /\ lock = Nobody
    /\ pc = [p \in Starts |-> <<"look for", "config">>]
    /\ mem = [p \in Starts |-> [nonce |-> 0, previous |-> Missing]]
    /\ last = Nobody /\ harmed = FALSE

GoesTo(p, stage, f) == pc' = [pc EXCEPT ![p] = <<stage, f>>]
Goes(p, stage) == GoesTo(p, stage, "setup")
Is(p, stage) == pc[p] = <<stage, "setup">>
At(p, f, stage) == pc[p] = <<stage, f>>

Ended == {"running", "failed", "crashed"}

(***************************************************************************)
(* Reading the files, and creating them                                    *)
(***************************************************************************)
LookFor(p, f) ==
    /\ At(p, f, "look for")
    /\ GoesTo(p, IF disk[f] = Missing THEN "create" ELSE "read", f)
    /\ UNCHANGED <<disk, temps, lock, mem, last, harmed>>

\* The configuration is read; the secrets are those of the template, so the user is asked, if
\* there is one.
Created(p, f) ==
    IF f = "config" THEN GoesTo(p, "read", f) ELSE Goes(p, "dialog") \/ Goes(p, "failed")

\* Someone else may have created it by now.
CreateOnce(p, f) ==
    /\ At(p, f, "create")
    /\ IF disk[f] = Missing
       THEN disk' = [disk EXCEPT ![f] = Partial(p)] /\ GoesTo(p, "fill", f)
       ELSE Created(p, f) /\ UNCHANGED disk
    /\ UNCHANGED <<temps, lock, mem, last, harmed>>

\* What is written goes to the file that was opened, though another may have its name by now.
Fill(p, f) ==
    /\ At(p, f, "fill")
    /\ disk' = [disk EXCEPT ![f] = IF @ = Partial(p) THEN Template(p) ELSE @]
    /\ Created(p, f)
    /\ UNCHANGED <<temps, lock, mem, last, harmed>>

\* What is removed is the file that has the name.
FillFails(p, f) ==
    /\ At(p, f, "fill")
    /\ harmed' = (harmed \/ disk[f] \notin {Partial(p), Missing})
    /\ disk' = [disk EXCEPT ![f] = Missing]
    /\ Goes(p, "failed")
    /\ UNCHANGED <<temps, lock, mem, last>>

\* A part of the template may be a configuration of its own.
ReadConfig(p) ==
    /\ At(p, "config", "read")
    /\ \/ disk["config"] # Missing /\ GoesTo(p, "look for", "secrets")
       \/ disk["config"][1] \in {"none", "partial"} /\ Goes(p, "failed")
    /\ UNCHANGED <<disk, temps, lock, mem, last, harmed>>

\* The credentials are in the environment: the file need not be there, or to be filled in.
NeedsNoSecrets(p) ==
    /\ At(p, "secrets", "create") \/ (At(p, "secrets", "read") /\ disk["secrets"][1] = "template")
    /\ Goes(p, "running")
    /\ UNCHANGED <<disk, temps, lock, mem, last, harmed>>

\* Without credentials the user is asked, if there is one.
ReadSecrets(p) ==
    /\ At(p, "secrets", "read")
    /\ CASE disk["secrets"][1] = "setup" -> Goes(p, "running")
         [] disk["secrets"] = Missing -> Goes(p, "failed")
         [] OTHER -> Goes(p, "dialog") \/ Goes(p, "failed")
    /\ UNCHANGED <<disk, temps, lock, mem, last, harmed>>

(***************************************************************************)
(* The setup                                                               *)
(***************************************************************************)
LockSetup(p) ==
    /\ Is(p, "dialog") /\ lock = Nobody
    /\ lock' = p
    /\ Goes(p, "look at previous")
    /\ UNCHANGED <<disk, temps, mem, last, harmed>>

SavePrevious(p) ==
    /\ Is(p, "look at previous")
    /\ \/ mem' = [mem EXCEPT ![p].previous = disk["secrets"]] /\ GoesTo(p, "open", "secrets") /\ UNCHANGED lock
       \/ Goes(p, "failed") /\ lock' = Nobody /\ UNCHANGED mem
    /\ UNCHANGED <<disk, temps, last, harmed>>

\* A setup writes the secrets, then the configuration, or the previous secrets.
Opens(restores) == IF restores THEN "open again" ELSE "open"
Renames(restores) == IF restores THEN "rename again" ELSE "rename"

Temp(p, f) == <<f, Pid[p], mem[p].nonce>>

\* Whose name is taken removes the file that has it.
OpenTemp(p, f, restores) ==
    /\ At(p, f, Opens(restores))
    /\ Temp(p, f) \notin temps
    /\ temps' = temps \cup {Temp(p, f)}
    /\ GoesTo(p, Renames(restores), f)
    /\ UNCHANGED <<disk, lock, mem, last, harmed>>

Written(p, f, restores) == IF restores THEN mem[p].previous ELSE Setup(p)

Rename(p, f, restores) ==
    /\ At(p, f, Renames(restores)) /\ Temp(p, f) \in temps
    /\ disk' = [disk EXCEPT ![f] = Written(p, f, restores)]
    /\ temps' = temps \ {Temp(p, f)}
    /\ mem' = [mem EXCEPT ![p].nonce = @ + 1]
    /\ CASE restores -> Goes(p, "failed") /\ lock' = Nobody /\ UNCHANGED last
         [] ~restores /\ f = "secrets" -> GoesTo(p, "open", "config") /\ UNCHANGED <<lock, last>>
         [] ~restores /\ f = "config" -> Goes(p, "running") /\ lock' = Nobody /\ last' = p
    /\ UNCHANGED harmed

\* A failure of the secrets leaves all as it was; one of the configuration is rolled back.
WriteFails(p, f, restores) ==
    /\ At(p, f, Opens(restores)) \/ At(p, f, Renames(restores))
    /\ temps' = temps \ {Temp(p, f)}
    /\ mem' = [mem EXCEPT ![p].nonce = @ + 1]
    /\ IF f = "config"
       THEN /\ IF mem[p].previous = Missing THEN Goes(p, "remove") ELSE GoesTo(p, "open again", "secrets")
            /\ UNCHANGED <<lock, harmed>>
       ELSE Goes(p, "failed") /\ lock' = Nobody /\ harmed' = (harmed \/ restores)
    /\ UNCHANGED <<disk, last>>

\* There was no secrets file: it is removed.
RemoveSecrets(p) ==
    /\ Is(p, "remove")
    /\ \/ disk' = [disk EXCEPT !["secrets"] = Missing] /\ UNCHANGED harmed
       \/ harmed' = TRUE /\ UNCHANGED disk
    /\ Goes(p, "failed") /\ lock' = Nobody
    /\ UNCHANGED <<temps, mem, last>>

\* The operating system releases the lock.
Crash(p) ==
    /\ pc[p][1] \notin Ended
    /\ harmed' = (harmed \/ (lock = p /\ disk["secrets"] = Setup(p)))
    /\ lock' = IF lock = p THEN Nobody ELSE lock
    /\ Goes(p, "crashed")
    /\ UNCHANGED <<disk, temps, mem, last>>

Next ==
    \E p \in Starts :
       \/ \E f \in Files : LookFor(p, f) \/ CreateOnce(p, f) \/ Fill(p, f) \/ FillFails(p, f)
       \/ ReadConfig(p) \/ NeedsNoSecrets(p) \/ ReadSecrets(p)
       \/ LockSetup(p) \/ SavePrevious(p)
       \/ \E f \in Files, restores \in BOOLEAN :
             OpenTemp(p, f, restores) \/ Rename(p, f, restores) \/ WriteFails(p, f, restores)
       \/ RemoveSecrets(p)
       \/ Crash(p)

Spec == Init /\ [][Next]_vars
-----------------------------------------------------------------------------
(***************************************************************************)
(* Properties                                                              *)
(***************************************************************************)
\* Unless a start was killed between the two writes, or a second step failed, the files are those
\* of the last setup that reported success, and no failed one has left its secrets.
FilesBelongTogether ==
    lock = Nobody /\ ~harmed =>
       IF last # Nobody THEN \A f \in Files : disk[f] = Setup(last)
       ELSE \A f \in Files : disk[f][1] # "setup"

\* A file that is not whole is being created, or its creator was killed meanwhile, or a setup
\* that had found it so has put it back.
TornOnlyByItsCreation ==
    \A f \in Files :
       disk[f][1] = "partial" =>
          \/ pc[disk[f][2]][1] \in {"fill", "crashed"}
          \/ \E p \in Starts : mem[p].previous = disk[f] /\ pc[p][1] = "failed"
=============================================================================
