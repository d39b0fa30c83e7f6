------------------------------ MODULE Reminders ------------------------------
(***************************************************************************)
(* The reminder plugin on its host.  A message creates a reminder or       *)
(* cancels one; a schedule triggers it.  Each of them is a chain: the      *)
(* plugin is invoked on a snapshot of its state, its output (writes to the *)
(* state and a command) is committed, the command is performed, its result *)
(* recorded, and the plugin is invoked again to be told of the result.     *)
(*                                                                         *)
(* The plugin runs serially: one chain has its permit.  But a host that    *)
(* starts again first takes up the chains that the last one has left, and  *)
(* does so without the permit, while the schedules that these chains       *)
(* create may already fire.  A write of a state that has changed since the *)
(* snapshot is refused and its chain given up.                             *)
(***************************************************************************)
EXTENDS Integers, FiniteSets

CONSTANTS Tasks, MaxTasks,  \* reminders, and how many may exist
          None, MaxCrashes

VARIABLES state,            \* the plugin's state: the status of each task, and the index of tasks
          rows,             \* the rows of the scheduler: "none", "pending", "firing"
          workers,          \* "none", "asleep", "claimed" (waits for the permit), "firing", "finishing"
          ledger,           \* how far each chain has come, durably
          runner,           \* who runs which chain: [chain, stage, output, stale]
          user,             \* what was sent and told about each task
          host              \* the phase, the chains still to take up, the crashes so far

vars == <<state, rows, workers, ledger, runner, user, host>>

Create(t) == <<"create", t>>
Cancel(t) == <<"cancel", t>>
Send(t) == <<"send", t>>
Chains == {"create", "cancel", "send"} \X Tasks
Results == {"succeeded", "failed", "unknown", "not pending"}

Nobody == [chain |-> None, stage |-> "free", output |-> None, stale |-> FALSE]

Begin(c) == [Nobody EXCEPT !.chain = c, !.stage = "begun"]

Init ==
    /\ state = [status |-> [t \in Tasks |-> "none"], index |-> {}]
    /\ rows = [t \in Tasks |-> "none"] /\ workers = [t \in Tasks |-> "none"]
    /\ ledger = [c \in Chains |-> "none"]
    /\ runner = [r \in {"permit", "recovery"} |-> Nobody]
    /\ user = [t \in Tasks |-> [sent |-> 0, told |-> "nothing", late |-> FALSE]]
    /\ host = [phase |-> "ready", pending |-> {}, crashes |-> 0]

(***************************************************************************)
(* The plugin: what it answers on a snapshot                               *)
(***************************************************************************)
Answer(op, command) == [op |-> op, command |-> command, index |-> state.index]
Nothing == Answer("nothing", FALSE)

create_reminder_AtTheLimit(t) ==
    IF t \in state.index \/ Cardinality(state.index) > MaxTasks THEN Nothing
    ELSE Answer("create", TRUE)

create_reminder(t) ==
    IF t \in state.index \/ Cardinality(state.index) >= MaxTasks THEN Nothing
    ELSE Answer("create", TRUE)

cancel_reminder(t) ==
    CASE state.status[t] = "none" -> Nothing
      [] state.status[t] = "failed" -> Answer("remove", FALSE)
      [] OTHER -> Answer("nothing", TRUE)

\* Without its state the trigger is an error that is not tried again.
reminder_triggered(t) == IF state.status[t] = "none" THEN Nothing ELSE Answer("deliver", TRUE)

reminder_completed(kind, t, result) ==
    CASE kind = "create" /\ result = "failed" -> Answer("remove", FALSE)
      [] kind \in {"create", "cancel"} /\ result = "unknown" -> Answer("tell unknown", FALSE)
      [] kind = "cancel" /\ result = "succeeded" -> Answer("remove and tell", FALSE)
      [] kind = "send" /\ result = "succeeded" -> Answer("remove", FALSE)
      [] kind = "send" /\ result # "succeeded" /\ state.status[t] # "none" -> Answer("fail", FALSE)
      [] OTHER -> Nothing

on_event(c) ==
    LET kind == c[1] t == c[2]
    IN  IF ledger[c] \in Results THEN reminder_completed(kind, t, ledger[c])
        ELSE CASE kind = "create" -> create_reminder(t)
               [] kind = "cancel" -> cancel_reminder(t)
               [] kind = "send" -> reminder_triggered(t)

Removes(op) == op \in {"remove", "remove and tell"}

\* The keys that an output writes and whose revision it expects.
Keys(op, t) ==
    CASE op = "create" -> {"index"}
      [] op \in {"deliver", "fail"} -> {t}
      [] Removes(op) -> {"index", t}
      [] OTHER -> {}

\* The index is written as it was in the snapshot, with the change.
Applied(output, t) ==
    LET op == output.op
    IN  CASE op = "create" ->
               [status |-> [state.status EXCEPT ![t] = "scheduled"], index |-> output.index \cup {t}]
          [] op = "deliver" -> [state EXCEPT !.status[t] = "delivering"]
          [] op = "fail" -> [state EXCEPT !.status[t] = "failed"]
          [] Removes(op) ->
               [status |-> [state.status EXCEPT ![t] = "none"], index |-> output.index \ {t}]
          [] OTHER -> state
-----------------------------------------------------------------------------
(***************************************************************************)
(* The host                                                                *)
(***************************************************************************)
\* A user's message, once.
Message(c) ==
    /\ host.phase = "ready" /\ c[1] \in {"create", "cancel"} /\ ledger[c] = "none"
    /\ runner["permit"] = Nobody
    /\ runner' = [runner EXCEPT !["permit"] = Begin(c)]
    /\ ledger' = [ledger EXCEPT ![c] = "open"]
    /\ UNCHANGED <<state, rows, workers, user, host>>

Invoke(r) ==
    /\ runner[r].stage = "begun"
    /\ runner' = [runner EXCEPT ![r].stage = "invoked", ![r].stale = FALSE,
                                ![r].output = on_event(runner[r].chain)]
    /\ UNCHANGED <<state, rows, workers, ledger, user, host>>

\* The chain of the runner ends; a worker that has run it still has its row to finish.
Ends(r) ==
    LET c == runner[r].chain
    IN  /\ ledger' = [ledger EXCEPT ![c] = "done"]
        /\ workers' = [workers EXCEPT ![c[2]] = IF r = "permit" /\ c[1] = "send" THEN "finishing" ELSE @]

\* The writes, the command and the end of the delivery are one transaction.
Commit(r) ==
    LET c == runner[r].chain t == c[2] output == runner[r].output
        Stale(q) == \/ runner[q].stale
                    \/ /\ runner[q].stage = "invoked"
                       /\ Keys(output.op, t) \cap Keys(runner[q].output.op, runner[q].chain[2]) # {}
    IN  /\ runner[r].stage = "invoked" /\ ~ runner[r].stale
        /\ state' = Applied(output, t)
        /\ user' = [user EXCEPT ![t].told = CASE output.op = "remove and tell" -> "cancelled"
                                              [] output.op = "tell unknown" -> "unknown"
                                              [] OTHER -> @]
        /\ runner' = [q \in DOMAIN runner |->
                        IF q # r THEN [runner[q] EXCEPT !.stale = Stale(q)]
                        ELSE IF output.command THEN [runner[r] EXCEPT !.stage = "committed"] ELSE Nobody]
        /\ IF output.command
           THEN ledger' = [ledger EXCEPT ![c] = "committed"] /\ UNCHANGED workers
           ELSE Ends(r)
        /\ UNCHANGED <<rows, host>>

\* A refused write is a failure that is not tried again: a dead letter.
CommitRefused(r) ==
    /\ runner[r].stage = "invoked" /\ runner[r].stale
    /\ Keys(runner[r].output.op, runner[r].chain[2]) # {}
    /\ Ends(r)
    /\ runner' = [runner EXCEPT ![r] = Nobody]
    /\ user' = [user EXCEPT ![runner[r].chain[2]].told = "given up"]
    /\ UNCHANGED <<state, rows, host>>

Performed(r, result) ==
    [runner EXCEPT ![r].stage = "performed", ![r].output = result]

\* The row and its worker, or a full table.
PerformCreate(r, t) ==
    /\ runner[r].stage = "committed" /\ runner[r].chain = Create(t)
    /\ \/ /\ rows' = [rows EXCEPT ![t] = "pending"] /\ workers' = [workers EXCEPT ![t] = "asleep"]
          /\ runner' = Performed(r, "succeeded")
       \/ runner' = Performed(r, "failed") /\ UNCHANGED <<rows, workers>>
    /\ UNCHANGED <<state, ledger, user, host>>

\* A row is deleted even while it fires, and its worker aborted wherever it is.
PerformCancel(r, t) ==
    LET aborted == workers[t] = "firing"
    IN  /\ runner[r].stage = "committed" /\ runner[r].chain = Cancel(t)
        /\ IF rows[t] # "none"
           THEN /\ rows' = [rows EXCEPT ![t] = "none"] /\ workers' = [workers EXCEPT ![t] = "none"]
                /\ runner' = [Performed(r, "succeeded") EXCEPT
                                !["permit"] = IF aborted THEN Nobody ELSE @]
           ELSE runner' = Performed(r, "not pending") /\ UNCHANGED <<rows, workers>>
        /\ UNCHANGED <<state, ledger, user, host>>

\* An unknown result: the message may have been sent.
PerformSend(r, t) ==
    /\ runner[r].stage = "committed" /\ runner[r].chain = Send(t)
    /\ \E result \in {"succeeded", "failed", "unknown"}, sent \in {0, 1} :
          /\ result = "succeeded" => sent = 1
          /\ result = "failed" => sent = 0
          /\ runner' = Performed(r, result)
          /\ user' = [user EXCEPT ![t].sent = @ + sent,
                                  ![t].late = @ \/ (sent = 1 /\ user[t].told = "cancelled")]
    /\ UNCHANGED <<state, rows, workers, ledger, host>>

\* The result is durable and the plugin is told of it.
Record(r) ==
    /\ runner[r].stage = "performed"
    /\ ledger' = [ledger EXCEPT ![runner[r].chain] = runner[r].output]
    /\ runner' = [runner EXCEPT ![r] = Begin(runner[r].chain)]
    /\ UNCHANGED <<state, rows, workers, user, host>>

\* The handler's time is over.  What is open stays so until the host starts again.
DropCall ==
    /\ runner["permit"] # Nobody /\ runner["permit"].chain[1] # "send"
    /\ runner' = [runner EXCEPT !["permit"] = Nobody]
    /\ UNCHANGED <<state, rows, workers, ledger, user, host>>

(***************************************************************************)
(* Schedules                                                               *)
(***************************************************************************)
Claim(t) ==
    /\ workers[t] = "asleep"
    /\ IF rows[t] = "pending"
       THEN rows' = [rows EXCEPT ![t] = "firing"] /\ workers' = [workers EXCEPT ![t] = "claimed"]
       ELSE workers' = [workers EXCEPT ![t] = "none"] /\ UNCHANGED rows
    /\ UNCHANGED <<state, ledger, runner, user, host>>

\* A trigger that was delivered before is not delivered again.
Fire(t) ==
    /\ workers[t] = "claimed" /\ runner["permit"] = Nobody
    /\ IF ledger[Send(t)] = "none"
       THEN /\ ledger' = [ledger EXCEPT ![Send(t)] = "open"]
            /\ runner' = [runner EXCEPT !["permit"] = Begin(Send(t))]
            /\ workers' = [workers EXCEPT ![t] = "firing"]
       ELSE workers' = [workers EXCEPT ![t] = "finishing"] /\ UNCHANGED <<ledger, runner>>
    /\ UNCHANGED <<state, rows, user, host>>

\* Only a row that is still firing is deleted.
FinishRow(t) ==
    /\ workers[t] = "finishing"
    /\ workers' = [workers EXCEPT ![t] = "none"]
    /\ rows' = [rows EXCEPT ![t] = IF @ = "firing" THEN "none" ELSE @]
    /\ UNCHANGED <<state, ledger, runner, user, host>>

(***************************************************************************)
(* Crashes and recovery                                                    *)
(***************************************************************************)
\* The next host first sets the commands without a result to unknown.
Recovered(c) == IF ledger[c] = "committed" THEN "unknown" ELSE ledger[c]

Crash ==
    /\ host.crashes < MaxCrashes
    /\ ledger' = [c \in Chains |-> Recovered(c)]
    /\ host' = [phase |-> "recovering", crashes |-> host.crashes + 1,
                pending |-> {c \in Chains : Recovered(c) \in Results \cup {"open"}}]
    /\ workers' = [t \in Tasks |-> "none"]
    /\ runner' = [r \in DOMAIN runner |-> Nobody]
    /\ UNCHANGED <<state, rows, user>>

TakeUp(c) ==
    /\ runner["recovery"] = Nobody /\ c \in host.pending
    /\ host' = [host EXCEPT !.pending = @ \ {c}]
    /\ runner' = [runner EXCEPT !["recovery"] = Begin(c)]
    /\ UNCHANGED <<state, rows, workers, ledger, user>>

\* Every row gets a worker; one that is firing is pending again.
RecoveryEnds ==
    /\ host.phase = "recovering" /\ host.pending = {} /\ runner["recovery"] = Nobody
    /\ host' = [host EXCEPT !.phase = "ready"]
    /\ rows' = [t \in Tasks |-> IF rows[t] = "firing" THEN "pending" ELSE rows[t]]
    /\ workers' = [t \in Tasks |-> IF rows[t] # "none" /\ workers[t] = "none" THEN "asleep" ELSE workers[t]]
    /\ UNCHANGED <<state, ledger, runner, user>>

Next ==
    \/ \E c \in Chains : Message(c) \/ TakeUp(c)
    \/ \E r \in {"permit", "recovery"} :
          \/ Invoke(r) \/ Commit(r) \/ CommitRefused(r) \/ Record(r)
          \/ \E t \in Tasks : PerformCreate(r, t) \/ PerformCancel(r, t) \/ PerformSend(r, t)
    \/ DropCall
    \/ \E t \in Tasks : Claim(t) \/ Fire(t) \/ FinishRow(t)
    \/ Crash
    \/ RecoveryEnds

Spec == Init /\ [][Next]_vars
-----------------------------------------------------------------------------
(***************************************************************************)
(* Properties                                                              *)
(***************************************************************************)
\* The index has the tasks that have a state, and no more than may be.
IndexIsExact ==
    /\ state.index = {t \in Tasks : state.status[t] # "none"}
    /\ Cardinality(state.index) <= MaxTasks

\* A reminder is sent once, and not after its user was told that it is cancelled.
SentOnceAndNotLate == \A t \in Tasks : user[t].sent <= 1 /\ ~ user[t].late

\* A reminder that waits has a row or a chain that is under way, unless its user was told
\* otherwise or a write was refused.
NoneIsForgotten ==
    \A t \in Tasks :
       state.status[t] \in {"scheduled", "delivering"} =>
          \/ rows[t] # "none"
          \/ \E kind \in {"create", "cancel", "send"} : ledger[<<kind, t>>] \notin {"none", "done"}
          \/ user[t].told \in {"unknown", "given up"}
=============================================================================
