--------------------------- MODULE PluginDelivery ---------------------------
(***************************************************************************)
(* The delivery of events to one plugin instance by the plugin host:       *)
(* PluginStore (plugin-host/storage.rs), which persists deliveries,        *)
(* commands and health in SQLite, and the loop of StaticPluginHost         *)
(* (plugin-host/runtime/mod.rs) that invokes the plugin, commits its       *)
(* output, executes its commands, retries, and recovers after a restart.   *)
(*                                                                         *)
(* A step is one transaction of the store with the synchronous code around *)
(* it, or the code between two awaits.  The delivery and invocation        *)
(* identifiers of an attempt are drawn together: one number stands for     *)
(* both, and 0 for the identifiers of a delivery that was only enqueued.   *)
(* The event a command result is reported in is named by its invocation    *)
(* and its command, as in the code, so a pair is both.                     *)
(*                                                                         *)
(* The plugin is external: it produces one of Outputs, or fails.  The      *)
(* state of the plugin is its revision only.                               *)
(***************************************************************************)
EXTENDS Integers, Sequences, FiniteSets

CONSTANTS
  Events,          \* the events of the adapters and the schedules
  Schedules,       \* those that are schedules of the plugin
  Workers,         \* the tasks that deliver: handlers, schedules and Loop
  Loop,            \* the task of register(), which delivers the backlog
  Commands,        \* the commands of the plugin
  Key,             \* the idempotency key of each command
  NoKey,           \* "no idempotency key"
  Outputs,         \* outputs: a sequence of commands and a state operation
  Statuses,        \* the statuses a command may end with
  ReportsResults,  \* the plugin subscribes to action.completed
  MaxAttempts,     \* MAX_DELIVERY_ATTEMPTS
  CircuitFailures, \* CIRCUIT_BREAKER_FAILURES
  MaxChain,        \* MAX_ACTION_COMPLETION_CHAIN
  MaxInvocations,  \* bound on the attempts of a behaviour
  MaxDispatches,   \* bound on the calls of the Runtime
  MaxCrashes,      \* bound on the crashes of the process
  MaxDrops,        \* bound on the handler futures the Runtime drops
  MaxLosses,       \* bound on the results the store fails to record
  MaxReopenings    \* bound on the operator's recoveries of dead letters

Invocations == 1..MaxInvocations
Issued      == Invocations \X Commands
Deliverable == Events \cup Issued

ASSUME DeliveryAssumption ==
  /\ DOMAIN Key = Commands
  /\ Schedules \subseteq Events
  /\ Loop \in Workers
  /\ Events \cap Issued = {}
  /\ \A o \in Outputs : /\ o.commands \in Seq(Commands)
                        /\ o.operation \in {"none", "put", "compare_and_swap"}
                        /\ \A i, j \in 1..Len(o.commands) :
                             o.commands[i] = o.commands[j] => i = j
  /\ Statuses \subseteq {"succeeded", "failed", "unknown"}
  /\ ReportsResults \in BOOLEAN
  /\ {MaxAttempts, CircuitFailures, MaxChain} \subseteq Nat \ {0}
  /\ {MaxInvocations, MaxDispatches, MaxCrashes,
      MaxDrops, MaxLosses, MaxReopenings} \subseteq Nat

VARIABLES
  \* persistent
  deliveries, \* table plugin_deliveries
  ledger,     \* the status of a command in command_ledger and command_outbox
  health,     \* table plugin_health
  revision,   \* table plugin_state
  \* volatile
  host,       \* "down", the steps of register(), or "up"
  plugin,     \* PluginInstanceState, as far as a delivery can change it
  work,       \* what each concurrent invocation is doing
  recovery,   \* the deliveries register() has still to recover
  \* history and bounds
  drawn,      \* how many invocation identifiers have been drawn
  performed,  \* how often each command was executed
  failed_at,  \* drawn, when the last failure was counted
  spent       \* how much of each bound is used

persistent == <<deliveries, ledger, health, revision>>
vars == <<deliveries, ledger, health, revision, host, plugin, work, recovery,
          drawn, performed, failed_at, spent>>

\* The deliveries that register() has listed, with their attempts, and has not
\* come to; whether a command was executed since, which may have created a
\* schedule; and what schedules were at whose tasks were aborted since.
NoRecovery == [backlog |-> {}, created |-> FALSE, cut |-> {}]

Idle == [pc |-> "idle", event |-> 0, depth |-> 0, id |-> 0, snapshot |-> 0,
         todo |-> <<>>, results |-> <<>>, queue |-> <<>>, first |-> TRUE]

Init ==
  /\ deliveries = [e \in Deliverable |->
       [status |-> "absent", attempt |-> 0, id |-> 0, due |-> TRUE,
        generation |-> 0, depth |-> 0]]
  /\ ledger = [i \in Issued |-> "absent"]
  /\ health = [exists |-> FALSE, failures |-> 0, open |-> FALSE, generation |-> 0]
  /\ revision = 0
  /\ host = "down"
  /\ plugin = "Draining"
  /\ work = [w \in Workers |-> Idle]
  /\ recovery = NoRecovery
  /\ drawn = 0
  /\ performed = [i \in Issued |-> 0]
  /\ failed_at = 0
  /\ spent = [dispatches |-> 0, crashes |-> 0, drops |-> 0, losses |-> 0,
              reopenings |-> 0]

Spend(what, bound) ==
  /\ spent[what] < bound
  /\ spent' = [spent EXCEPT ![what] = @ + 1]

----------------------------------------------------------------------------
(* The store *)

\* Seeded faults, here and below: what the definition that follows would be
\* if the code were wrong.
MayBegin_Committed(row) ==
  row.status \in {"absent", "committed"} \/ (row.status = "pending" /\ row.due)

\* begin_delivery() hands out a delivery that is new, or pending and due.
MayBegin(row) == row.status = "absent" \/ (row.status = "pending" /\ row.due)

Begun(row, id, depth) ==
  [status |-> "running", attempt |-> row.attempt + 1, id |-> id, due |-> TRUE,
   generation |-> health.generation, depth |-> depth]

\* The conditions on the delivery of mark_delivery_committed(), _failed() and
\* _succeeded().
Owns(w, statuses) ==
  LET row == deliveries[work[w].event] IN
  row.status \in statuses /\ row.id = work[w].id

\* enqueue_delivery() inserts the deliveries that do not exist yet.
Enqueued(rows, reports, depth) ==
  [e \in Deliverable |->
     IF e \in reports /\ rows[e].status = "absent"
       THEN [status |-> "pending", attempt |-> 0, id |-> 0, due |-> TRUE,
             generation |-> 0, depth |-> depth[e]]
       ELSE rows[e]]

Settled(rows, events) ==
  [e \in Deliverable |->
     IF e \in events THEN [rows[e] EXCEPT !.status = "succeeded", !.due = TRUE]
                     ELSE rows[e]]

Reset_Always(generation) ==
  health' = [health EXCEPT !.exists = TRUE, !.failures = 0, !.open = FALSE]

\* reset_health_if_generation(): a success forgets the failures it has seen.
Reset(generation) ==
  health' = IF generation = health.generation
              THEN [health EXCEPT !.exists = TRUE, !.failures = 0, !.open = FALSE]
              ELSE health

Known_Unfinished(c) ==
  {i \in Issued : /\ ledger[i] = "pending"
                  /\ Key[c] # NoKey
                  /\ Key[i[2]] = Key[c]}

\* The commands of an output, by what commit() finds in the ledger.
Known(c) ==
  {i \in Issued : /\ ledger[i] # "absent"
                  /\ Key[c] # NoKey
                  /\ Key[i[2]] = Key[c]}

Replayed(commands) == {n \in 1..Len(commands) : Known(commands[n]) # {}}

IdempotencyConflict(commands) ==
  \/ \E m, n \in 1..Len(commands) :
       /\ m # n
       /\ Key[commands[m]] # NoKey
       /\ Key[commands[m]] = Key[commands[n]]
  \/ \E n \in 1..Len(commands) : \E i \in Known(commands[n]) : i[2] # commands[n]
  \/ Replayed(commands) # {} /\ Replayed(commands) # 1..Len(commands)

\* The unfinished commands are recorded as interrupted, with status Unknown.
Interrupted(commands) ==
  [i \in Issued |-> IF i \in commands /\ ledger[i] = "pending"
                      THEN "unknown" ELSE ledger[i]]

\* committed_command_results(): the results of deliveries not yet finalized.
Results(statuses) ==
  {i \in Issued : /\ statuses[i] \notin {"absent", "pending"}
                  /\ \E e \in Deliverable : /\ deliveries[e].status = "committed"
                                            /\ deliveries[e].id = i[1]}

\* prepare_action_completion_envelopes()
Reports(results) == IF ReportsResults THEN results ELSE {}

----------------------------------------------------------------------------
(* deliver_with_retry() and deliver_action_completions() *)

\* The worker is done with an event, whose results are reported next; after a
\* report that leaves the instance disabled the others are left for later.
Advanced(w, reports, state) ==
  LET queue == work[w].queue \o reports IN
  IF queue = <<>> \/ (~work[w].first /\ state = "Disabled")
    THEN Idle
    ELSE [Idle EXCEPT !.pc = "check", !.event = Head(queue).event,
                      !.depth = Head(queue).depth, !.queue = Tail(queue),
                      !.first = FALSE]

Advance(w, reports, state) ==
  work' = [work EXCEPT ![w] = Advanced(w, reports, state)]

\* The completions of some commands, in any order, with their depth.
Envelopes(w, reports) ==
  {q \in [1..Cardinality(reports) ->
            {[event |-> i, depth |-> work[w].depth + 1] : i \in reports}] :
     \A i \in reports : \E n \in DOMAIN q : q[n].event = i}

At(w, pc) == work[w].pc = pc

Goto(w, pc) == work' = [work EXCEPT ![w].pc = pc]

\* A message of the Runtime or a due schedule reaches a ready instance.  The
\* Runtime does not run before the registration has ended, but the instance is
\* ready, and the task of a schedule that a recovered delivery has created
\* fires as soon as it is due.
Dispatch(w, e) ==
  /\ host = "up" \/ (host = "deliver" /\ recovery.created /\ e \in Schedules)
  /\ plugin = "Ready"
  /\ w # Loop
  /\ At(w, "idle")
  /\ Spend("dispatches", MaxDispatches)
  /\ work' = [work EXCEPT ![w].pc = "check", ![w].event = e]
  /\ UNCHANGED <<persistent, host, plugin, recovery, drawn, performed, failed_at>>

\* deliver_single_with_retry() refuses while the circuit is open; the test is
\* outside the loop, so a retry does not repeat it.
Check(w) ==
  /\ At(w, "check")
  /\ IF health.open
       THEN plugin' = "Disabled" /\ Advance(w, <<>>, "Disabled")
       ELSE Goto(w, "begin") /\ UNCHANGED plugin
  /\ UNCHANGED <<persistent, host, recovery, drawn, performed, failed_at, spent>>

Begin(w) ==
  /\ At(w, "begin")
  /\ work[w].depth <= MaxChain
  /\ LET e == work[w].event IN
     \/ /\ MayBegin(deliveries[e])
        /\ drawn < MaxInvocations
        /\ drawn' = drawn + 1
        /\ deliveries' = [deliveries EXCEPT ![e] =
                            Begun(@, drawn + 1, work[w].depth)]
        /\ work' = [work EXCEPT ![w].pc = "invoke", ![w].id = drawn + 1,
                                ![w].snapshot = revision]
     \/ /\ ~MayBegin(deliveries[e])
        /\ Advance(w, <<>>, plugin)
        /\ UNCHANGED <<deliveries, drawn>>
  /\ UNCHANGED <<ledger, health, revision, host, plugin, recovery, performed,
                 failed_at, spent>>

\* mark_delivery_failed(), for a counted failure.
Counted(threshold) ==
  [exists |-> TRUE,
   failures |-> health.failures + 1,
   open |-> health.open \/ health.failures + 1 >= threshold,
   generation |-> health.generation + 1]

\* reject_excessive_action_completion(): the chain of a plugin that answers
\* its own results with commands is cut, and the plugin with it.
Reject(w) ==
  /\ At(w, "begin")
  /\ work[w].depth > MaxChain
  /\ LET e == work[w].event IN
     \/ /\ MayBegin(deliveries[e])
        /\ drawn < MaxInvocations
        /\ drawn' = drawn + 1
        /\ deliveries' = [deliveries EXCEPT ![e] =
             [Begun(@, drawn + 1, work[w].depth) EXCEPT !.status = "dead_letter"]]
        /\ health' = Counted(1)
        /\ failed_at' = drawn + 1
     \/ /\ ~MayBegin(deliveries[e])
        /\ UNCHANGED <<deliveries, health, drawn, failed_at>>
  /\ plugin' = "Disabled"
  /\ Advance(w, <<>>, "Disabled")
  /\ UNCHANGED <<ledger, revision, host, recovery, performed, spent>>

\* recover_committed_delivery(): the delivery is committed, but a result could
\* not be recorded; what has no result is reported as interrupted.
RecoverCommitted(w) ==
  LET e       == work[w].event
      id      == work[w].id
      results == {i \in Results(ledger') : i[1] = id}
  IN
  /\ ledger' = Interrupted({id} \X Commands)
  /\ deliveries' =
       Settled(Enqueued(deliveries, Reports(results), [i \in Issued |-> work[w].depth + 1]),
               IF deliveries[e].status = "committed" THEN {e} ELSE {})
  /\ IF deliveries[e].status = "committed"
       THEN Reset(deliveries[e].generation) ELSE UNCHANGED health
  /\ \E q \in Envelopes(w, Reports(results)) : Advance(w, q, plugin)
  /\ UNCHANGED <<plugin, failed_at>>

\* record_delivery_failure(): retry after a delay, or a dead letter, or
\* neither, when the circuit opens.
RecordFailure(w, kind) ==
  LET e       == work[w].event
      counts  == kind # "permanent"
      after   == IF counts
                   THEN Counted(IF kind = "fatal" THEN 1 ELSE CircuitFailures)
                   ELSE health
      tripped == IF counts
                   THEN after.failures >= (IF kind = "fatal" THEN 1 ELSE CircuitFailures)
                   ELSE health.open
      dead    == kind # "retryable" \/ deliveries[e].attempt >= MaxAttempts
      state   == IF kind = "fatal" \/ tripped THEN "Disabled" ELSE plugin
  IN
  /\ Owns(w, {"running"})
  /\ deliveries' = [deliveries EXCEPT
                      ![e].status = IF dead THEN "dead_letter" ELSE "pending",
                      ![e].due = FALSE]
  /\ health' = after
  /\ failed_at' = IF counts THEN drawn ELSE failed_at
  /\ plugin' = state
  /\ IF ~dead /\ ~tripped THEN Goto(w, "backoff") ELSE Advance(w, <<>>, state)
  /\ UNCHANGED ledger

\* The invocation times out or panics ("retryable"), reports an error or
\* returns an invalid output ("permanent"), or traps ("fatal").
Fail(w, kind) ==
  /\ At(w, "invoke")
  /\ \/ RecordFailure(w, kind)
     \/ ~Owns(w, {"running"}) /\ RecoverCommitted(w)
  /\ UNCHANGED <<revision, host, recovery, drawn, performed, spent>>

\* commit() in commit_and_execute(): state, commands and the status of the
\* delivery change together or not at all.  An output whose keyed commands
\* are all known has been committed before, and is not applied again.
CommitOutput(w, o) ==
  LET id       == work[w].id
      replayed == Replayed(o.commands) # {}
      issue    == IF replayed THEN <<>> ELSE o.commands
  IN
  /\ Owns(w, {"running"})
  /\ ~IdempotencyConflict(o.commands)
  /\ replayed \/ o.operation # "compare_and_swap" \/ work[w].snapshot = revision
  /\ deliveries' = [deliveries EXCEPT ![work[w].event].status = "committed"]
  /\ ledger' = [i \in Issued |->
                  IF \E n \in 1..Len(issue) : i = <<id, issue[n]>>
                    THEN "pending" ELSE ledger[i]]
  /\ revision' = IF o.operation = "none" \/ replayed THEN revision ELSE revision + 1
  /\ work' = [work EXCEPT ![w].pc = "execute", ![w].todo = issue]
  /\ UNCHANGED <<health, plugin, failed_at>>

CommitFails(w, o) ==
  /\ \/ IdempotencyConflict(o.commands)
     \/ /\ Replayed(o.commands) = {}
        /\ o.operation = "compare_and_swap"
        /\ work[w].snapshot # revision
     \/ ~Owns(w, {"running"})
  /\ \/ RecordFailure(w, "permanent")
     \/ ~Owns(w, {"running"}) /\ RecoverCommitted(w)
  /\ UNCHANGED revision

Output(w, o) ==
  /\ At(w, "invoke")
  /\ CommitOutput(w, o) \/ CommitFails(w, o)
  /\ UNCHANGED <<host, recovery, drawn, performed, spent>>

\* execute_command(): the command takes effect, and its result is recorded
\* afterwards, in a transaction of its own.  The effect may be a schedule and
\* its task.
StartCommand(w) ==
  /\ At(w, "execute")
  /\ work[w].todo # <<>>
  /\ performed' = [performed EXCEPT ![<<work[w].id, Head(work[w].todo)>>] = @ + 1]
  /\ Goto(w, "executing")
  /\ recovery' = [recovery EXCEPT !.created = @ \/ host = "deliver"]
  /\ UNCHANGED <<persistent, host, plugin, drawn, failed_at, spent>>

FinishCommand(w, status) ==
  /\ At(w, "executing")
  /\ LET i == <<work[w].id, Head(work[w].todo)>> IN
     /\ ledger' = [ledger EXCEPT ![i] = status]
     /\ work' = [work EXCEPT ![w].pc = "execute", ![w].todo = Tail(@),
                             ![w].results = Append(@, i)]
  /\ UNCHANGED <<deliveries, health, revision, host, plugin, recovery, drawn,
                 performed, failed_at, spent>>

\* mark_command() fails: the error ends the attempt, which is committed.
LoseResult(w) ==
  /\ At(w, "executing")
  /\ Spend("losses", MaxLosses)
  /\ IF Owns(w, {"running"})
       THEN RecordFailure(w, "permanent") ELSE RecoverCommitted(w)
  /\ UNCHANGED <<revision, host, recovery, drawn, performed>>

\* All commands have a result: the reports are enqueued one at a time, then
\* the delivery succeeds, and only then are the reports delivered.
EnqueueReports(w) ==
  /\ At(w, "execute")
  /\ work[w].todo = <<>>
  /\ deliveries' = Enqueued(deliveries,
                            Reports({work[w].results[n] : n \in DOMAIN work[w].results}),
                            [i \in Issued |-> work[w].depth + 1])
  /\ Goto(w, "succeed")
  /\ UNCHANGED <<ledger, health, revision, host, plugin, recovery, drawn,
                 performed, failed_at, spent>>

Succeed(w) ==
  LET e       == work[w].event
      reports == [n \in DOMAIN work[w].results |->
                    [event |-> work[w].results[n], depth |-> work[w].depth + 1]]
  IN
  /\ At(w, "succeed")
  /\ \/ /\ Owns(w, {"running", "committed"})
        /\ deliveries' = Settled(deliveries, {e})
        /\ Reset(deliveries[e].generation)
        /\ Advance(w, IF ReportsResults THEN reports ELSE <<>>, plugin)
     \/ /\ ~Owns(w, {"running", "committed"})
        /\ Advance(w, <<>>, plugin)
        /\ UNCHANGED <<deliveries, health>>
  /\ UNCHANGED <<ledger, revision, host, plugin, recovery, drawn, performed,
                 failed_at, spent>>

\* The persisted next_attempt_ms passes, and the sleep of the loop ends.
BackoffEnds(e) ==
  /\ deliveries[e].status = "pending"
  /\ ~deliveries[e].due
  /\ deliveries' = [deliveries EXCEPT ![e].due = TRUE]
  /\ UNCHANGED <<ledger, health, revision, host, plugin, work, recovery, drawn,
                 performed, failed_at, spent>>

Wake(w) ==
  /\ At(w, "backoff")
  /\ Owns(w, {"pending"}) => deliveries[work[w].event].due
  /\ Goto(w, "begin")
  /\ UNCHANGED <<persistent, host, plugin, recovery, drawn, performed, failed_at,
                 spent>>

\* Worker w is to deliver event e, or a report it has queued or will queue.
Attends(w, e) ==
  /\ ~At(w, "idle")
  /\ \/ e = work[w].event
     \/ \E n \in DOMAIN work[w].queue : e = work[w].queue[n].event
     \/ /\ At(w, "succeed") /\ ReportsResults
        /\ \E n \in DOMAIN work[w].results : e = work[w].results[n]

\* The Runtime's handler timeout, or its abort of the event tasks, drops the
\* future of the handler at an await; schedule.cancel and stop_schedulers()
\* abort the task of a schedule.
Drop(w) ==
  /\ host \in {"deliver", "up"}
  /\ w # Loop
  /\ work[w].pc \in {"invoke", "executing", "backoff"}
  /\ Spend("drops", MaxDrops)
  /\ work' = [work EXCEPT ![w] = Idle]
  /\ recovery' = IF host = "up" THEN recovery
                 ELSE [recovery EXCEPT !.cut = @ \cup {e \in Deliverable : Attends(w, e)}]
  /\ UNCHANGED <<persistent, host, plugin, drawn, performed, failed_at>>

----------------------------------------------------------------------------
(* Restart *)

Crash ==
  /\ host # "down"
  /\ Spend("crashes", MaxCrashes)
  /\ host' = "down"
  /\ plugin' = "Draining"
  /\ work' = [w \in Workers |-> Idle]
  /\ recovery' = NoRecovery
  /\ UNCHANGED <<persistent, drawn, performed, failed_at>>

\* register(): an instance with an open circuit is not started.
Register ==
  /\ host = "down"
  /\ IF health.open
       THEN host' = "up" /\ plugin' = "Disabled"
       ELSE host' = "commands" /\ plugin' = "Ready"
  /\ UNCHANGED <<persistent, work, recovery, drawn, performed, failed_at, spent>>

\* recover_pending_commands(), first loop: commands without a result.
InterruptCommands ==
  /\ host = "commands"
  /\ ledger' = Interrupted(Issued)
  /\ host' = "reports"
  /\ UNCHANGED <<deliveries, health, revision, plugin, work, recovery, drawn,
                 performed, failed_at, spent>>

\* The depth of a report is one more than that of the event it belongs to.
ReportDepth ==
  [i \in Reports(Results(ledger)) |->
     1 + deliveries[CHOOSE e \in Deliverable : /\ deliveries[e].status = "committed"
                                               /\ deliveries[e].id = i[1]].depth]

\* recover_pending_commands(), second loop.
RecoverReports ==
  /\ host = "reports"
  /\ deliveries' = Enqueued(deliveries, Reports(Results(ledger)), ReportDepth)
  /\ host' = "finalize"
  /\ UNCHANGED <<ledger, health, revision, plugin, work, recovery, drawn,
                 performed, failed_at, spent>>

\* finalize_committed_deliveries()
FinalizeCommitted ==
  LET committed == {e \in Deliverable : deliveries[e].status = "committed"} IN
  /\ host = "finalize"
  /\ deliveries' = Settled(deliveries, committed)
  /\ IF \E e \in committed : deliveries[e].generation = health.generation
       THEN Reset(health.generation) ELSE UNCHANGED health
  /\ host' = "requeue"
  /\ UNCHANGED <<ledger, revision, plugin, work, recovery, drawn, performed,
                 failed_at, spent>>

Requeued ==
  [e \in Deliverable |->
     IF deliveries[e].status = "running"
       THEN [deliveries[e] EXCEPT !.status = "pending", !.due = TRUE]
       ELSE deliveries[e]]

\* pending_deliveries()
Listed(rows) == {<<e, rows[e].attempt>> : e \in {d \in Deliverable : rows[d].status = "pending"}}

RequeueRunning_ListsFirst ==
  /\ host = "requeue"
  /\ deliveries' = Requeued
  /\ recovery' = [NoRecovery EXCEPT !.backlog = Listed(deliveries)]
  /\ host' = "deliver"
  /\ UNCHANGED <<ledger, health, revision, plugin, work, drawn, performed,
                 failed_at, spent>>

\* recover_pending_deliveries() requeues what was running and takes the list.
RequeueRunning ==
  /\ host = "requeue"
  /\ deliveries' = Requeued
  /\ recovery' = [NoRecovery EXCEPT !.backlog = Listed(deliveries')]
  /\ host' = "deliver"
  /\ UNCHANGED <<ledger, health, revision, plugin, work, drawn, performed,
                 failed_at, spent>>

\* The loop delivers one after the other, each when it was due as it was read;
\* the task of a schedule may have taken it since.
RecoverNext ==
  /\ host = "deliver"
  /\ plugin # "Disabled"
  /\ At(Loop, "idle")
  /\ \E b \in recovery.backlog : LET e == b[1] IN
       /\ deliveries[e].status = "pending" /\ deliveries[e].attempt = b[2]
            => deliveries[e].due
       /\ recovery' = [recovery EXCEPT !.backlog = @ \ {b}]
       /\ work' = [work EXCEPT ![Loop].pc = "check", ![Loop].event = e,
                               ![Loop].depth = deliveries[e].depth]
  /\ UNCHANGED <<persistent, host, plugin, drawn, performed, failed_at, spent>>

\* The tasks of schedules go on.
RecoveryEnds ==
  /\ host = "deliver"
  /\ At(Loop, "idle")
  /\ recovery.backlog = {} \/ plugin = "Disabled"
  /\ host' = "up"
  /\ recovery' = NoRecovery
  /\ UNCHANGED <<persistent, plugin, work, drawn, performed, failed_at, spent>>

\* recover_dead_letters(), an operation of the operator; not in the middle of
\* a registration.
RecoverDeadLetters ==
  /\ host \in {"down", "up"}
  /\ Spend("reopenings", MaxReopenings)
  /\ deliveries' = [e \in Deliverable |->
                      IF deliveries[e].status = "dead_letter"
                        THEN [deliveries[e] EXCEPT !.status = "pending",
                                                   !.attempt = 0, !.due = TRUE]
                        ELSE deliveries[e]]
  /\ health' = [exists |-> TRUE, failures |-> 0, open |-> FALSE,
                generation |-> IF health.exists THEN health.generation + 1 ELSE 0]
  /\ UNCHANGED <<ledger, revision, host, plugin, work, recovery, drawn, performed,
                 failed_at>>

----------------------------------------------------------------------------

Invoked(w) ==
  \/ \E o \in Outputs : Output(w, o)
  \/ \E kind \in {"retryable", "permanent", "fatal"} : Fail(w, kind)

Working(w) ==
  \/ Check(w)
  \/ Begin(w)
  \/ Reject(w)
  \/ Invoked(w)
  \/ StartCommand(w)
  \/ \E status \in Statuses : FinishCommand(w, status)
  \/ EnqueueReports(w)
  \/ Succeed(w)
  \/ Wake(w)

Starting ==
  \/ Register
  \/ InterruptCommands
  \/ RecoverReports
  \/ FinalizeCommitted
  \/ RequeueRunning
  \/ RecoverNext
  \/ RecoveryEnds

Next ==
  \/ \E w \in Workers : Working(w) \/ LoseResult(w) \/ Drop(w)
  \/ \E w \in Workers, e \in Events : Dispatch(w, e)
  \/ \E e \in Deliverable : BackoffEnds(e)
  \/ Starting
  \/ Crash
  \/ RecoverDeadLetters

Spec == Init /\ [][Next]_vars
----------------------------------------------------------------------------
(* Properties *)

Delivery == [status : {"absent", "pending", "running", "committed",
                       "succeeded", "dead_letter"},
             attempt : Nat, id : 0..drawn, due : BOOLEAN, generation : Nat,
             depth : Nat]

\* Types; besides, only an invocation that was drawn has a ledger entry, and
\* the host does not serve the Runtime while it registers the instance.
TypeOK ==
  /\ deliveries \in [Deliverable -> Delivery]
  /\ ledger \in [Issued -> {"absent", "pending"} \cup Statuses \cup {"unknown"}]
  /\ health \in [exists : BOOLEAN, failures : Nat, open : BOOLEAN, generation : Nat]
  /\ revision \in Nat
  /\ host \in {"down", "commands", "reports", "finalize", "requeue", "deliver", "up"}
  /\ plugin \in {"Draining", "Ready", "Disabled"}
  /\ recovery \in [backlog : SUBSET (Deliverable \X Nat), created : BOOLEAN,
                   cut : SUBSET Deliverable]
  /\ drawn \in 0..MaxInvocations
  /\ failed_at \in 0..drawn
  /\ \A i \in Issued : ledger[i] # "absent" => i[1] <= drawn
  /\ host \notin {"deliver", "up"} => \A w \in Workers : work[w] = Idle
  /\ host # "deliver" => At(Loop, "idle")

\* What DeliveryPromise knows of a delivery.
Outcome(row) ==
  CASE row.status = "absent" -> "none"
    [] row.status \in {"pending", "running"} -> "open"
    [] row.status \in {"committed", "succeeded"} -> "settled"
    [] row.status = "dead_letter" -> "dead"

Source(row) == IF row.status \in {"committed", "succeeded"} THEN row.id ELSE 0

\* The store and the loop keep DeliveryPromise: at most one invocation of an
\* event is committed, and its commands are performed at most once, across
\* retries, concurrent dispatches, dropped handlers, crashes and recovery.
Promise == INSTANCE DeliveryPromise WITH
  outcome <- [e \in Deliverable |-> Outcome(deliveries[e])],
  source  <- [e \in Deliverable |-> Source(deliveries[e])],
  times   <- performed

KeepsPromise == Promise!Spec

\* commit() looks idempotency keys up before it queues: of all the commands
\* with one key, whatever event they answer, at most one is ever performed.
KeyedOnce ==
  \A i, j \in Issued :
    /\ i # j
    /\ Key[i[2]] = Key[j[2]]
    /\ Key[i[2]] # NoKey
    => performed[i] = 0 \/ performed[j] = 0

\* A delivery is final only when each of its commands has a result, and every
\* result is queued for a plugin that subscribes to action.completed: no crash
\* between commit(), mark_command(), enqueue_delivery() and the finalization
\* loses a result or its report.
ResultsBeforeSuccess ==
  \A e \in Deliverable, c \in Commands :
    LET i == <<deliveries[e].id, c>> IN
    /\ deliveries[e].status = "succeeded"
    /\ i \in Issued
    /\ ledger[i] # "absent"
    => /\ ledger[i] # "pending"
       /\ ReportsResults => deliveries[i].status # "absent"

\* The ledger of commands and the deliveries agree over every crash: a command
\* is performed once for its key, and a delivery is final only with the results
\* of all its commands.
LedgerIsExact == KeyedOnce /\ ResultsBeforeSuccess

\* The failure_generation of plugin_health: the failures counted so far are
\* forgotten, and the circuit closes, only when the operator says so or when a
\* delivery succeeds that began after the last of them.
NewerSuccessResets ==
  [][ /\ health.failures > 0
      /\ health'.failures = 0
      => \/ spent'.reopenings > spent.reopenings
         \/ \E e \in Deliverable : /\ deliveries'[e].status = "succeeded"
                                   /\ deliveries[e].status # "succeeded"
                                   /\ deliveries[e].id > failed_at ]_vars

\* Of all that a crash or a dropped handler interrupted before, a registration
\* that leaves the instance ready leaves no delivery open but those that the
\* tasks of schedules are at, which recovered deliveries have created and which
\* fire meanwhile: what such a task takes from under the loop, or loses to it,
\* one of the two ends.  Only a task that was aborted leaves its deliveries.
RecoveryLeavesNothingOpen ==
  [][ /\ host = "deliver"
      /\ host' = "up"
      /\ plugin = "Ready"
      => \A e \in Deliverable :
           \/ deliveries[e].status \in {"absent", "succeeded", "dead_letter"}
           \/ \E w \in Workers \ {Loop} : Attends(w, e)
           \/ e \in recovery.cut ]_vars

\* Every delivery that was ever begun or enqueued must reach its end, unless
\* the instance is disabled (MCLiveness).
WasBegun(e) == deliveries[e].status # "absent"
HasEnded(e) ==
  deliveries[e].status \in {"succeeded", "dead_letter"} \/ plugin = "Disabled"
=============================================================================
