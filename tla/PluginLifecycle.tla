--------------------------- MODULE PluginLifecycle ---------------------------
(***************************************************************************)
(* One plugin instance of the plugin host (plugin-host/runtime/mod.rs):    *)
(* the state and generation of RegisteredPlugin, the InvocationGate that   *)
(* invocations and changes of the plugin share, the changes themselves     *)
(* (update_config, upgrade with its rollback, shutdown, restart), and the  *)
(* scheduler: the table scheduled_tasks (storage.rs), the workers of       *)
(* launch_schedule() and their abort handles.                              *)
(*                                                                         *)
(* A step is the code between two awaits; the last part of a worker, which *)
(* has no await, is three steps, as other threads run meanwhile.  An       *)
(* aborted worker disappears where it waits; one that is inside an         *)
(* invocation may still get to the end of it.                              *)
(*                                                                         *)
(* External: the plugin (any of its lifecycle calls may fail or time out,  *)
(* an invocation may create and cancel schedules), the handler calls of    *)
(* the Runtime and the operator.  PluginDelivery details what an           *)
(* invocation does; here a delivery ends well or as a dead letter, which   *)
(* may open the circuit.  The messages whose deliveries were interrupted   *)
(* are recovered as one.  The plugin runs in partitioned mode.  Left out   *)
(* is recovery after an upgrade that the process did not survive: the      *)
(* operator then starts the code that the persisted state belongs to.      *)
(***************************************************************************)
EXTENDS Integers, Sequences, FiniteSets

CONSTANTS
  Callers,     \* handler calls of the Runtime that may overlap
  Updaters,    \* calls of update_config() that may overlap
  Upgrade,     \* upgrade_with_trusted_capabilities()
  Shutdown,    \* StaticPluginHost::shutdown()
  Tasks,       \* task_id of the schedules
  Message,     \* the events of the handler calls that were interrupted
  Partition,   \* the partition key of each caller's event and of each task
  Permits,     \* max_concurrency of the plugin
  Slots,       \* numbers of the workers of one task that overlap
  MaxCalls,    \* bound on the handler calls
  MaxChanges,  \* bound on the updates and upgrades
  MaxStarts,   \* bound on the starts of the process
  MaxCreations \* how often a plugin uses the same task_id

Changers == Updaters \cup {Upgrade, Shutdown}
Workers  == Tasks \X Slots
Lanes    == {Partition[p] : p \in Callers \cup Tasks}
Events   == Tasks \cup {Message}

ASSUME LifecycleAssumption ==
  /\ {Permits, MaxCalls, MaxChanges, MaxStarts, MaxCreations} \subseteq Nat \ {0}
  /\ Slots \subseteq Nat \ {0}
  /\ Shutdown # Upgrade
  /\ {Upgrade, Shutdown} \cap Updaters = {}
  /\ Callers \cap (Changers \cup Workers) = {}
  /\ Changers \cap Workers = {}
  /\ Message \notin Tasks
  /\ DOMAIN Partition = Callers \cup Tasks

VARIABLES
  \* persistent
  rows,       \* status in scheduled_tasks
  delivered,  \* status in plugin_deliveries of the event of a schedule, and
              \* of the messages whose handler call did not end
  circuit,    \* the circuit of the instance is open
  data,       \* the version of the code that plugin_state is in the format of
  \* volatile
  host,       \* "down", "recovering" in register(), "up", or "stopped" once
              \* shutdown() has returned
  recovery,   \* the deliveries register() has still to recover, and is at
  lifecycle,  \* LifecycleState: state and generation
  code,       \* the version of the registered plugin
  config,     \* RegisteredPlugin::config
  guest,      \* the plugin: initialised, and with which configuration
  lane,       \* who holds (first) and waits for the lock of each partition
  free,       \* permits of the gate that nobody holds
  queue,      \* who waits for permits, in order
  caller,     \* what each handler call is doing
  changer,    \* what each change is doing
  worker,     \* what each schedule worker is doing
  aborted,    \* workers that were aborted within an invocation
  handle,     \* scheduled_tasks of the host: the worker of a task, or 0
  \* history and bounds
  number,     \* the number of each change, in the order they began
  switched,   \* the greatest number of a change that has switched
  retired,    \* the plugin was shut down for good, or not restarted
  overtaken,  \* tasks that were aborted while their worker was about to end
  stranded,   \* tasks whose row the recovery took back from their worker
  spent

persistent == <<rows, delivered, circuit, data>>
scheduler  == <<worker, aborted, handle>>
registered == <<code, config, guest>>
gate       == <<lane, free, queue>>
history    == <<number, switched, retired, overtaken, stranded, spent>>
vars == <<persistent, host, recovery, lifecycle, registered, gate, caller, changer,
          scheduler, history>>

NoRecovery == [todo |-> {}, at |-> {}]

Quiet ==
  /\ recovery = NoRecovery
  /\ lifecycle = [state |-> "Draining", generation |-> 0]
  /\ config = 0
  /\ guest = [up |-> FALSE, config |-> 0]
  /\ lane = [k \in Lanes |-> <<>>]
  /\ free = Permits
  /\ queue = <<>>
  /\ caller = [c \in Callers |-> [pc |-> "idle", generation |-> 0, since |-> 0]]
  /\ changer = [u \in Changers |-> "idle"]
  /\ worker = [w \in Workers |-> "none"]
  /\ aborted = {}
  /\ handle = [t \in Tasks |-> 0]
  /\ number = [u \in Changers |-> 0]
  /\ switched = 0
  /\ overtaken = {}
  /\ stranded = {}

Init ==
  /\ rows = [t \in Tasks |-> "absent"]
  /\ delivered = [e \in Events |-> "absent"]
  /\ circuit = FALSE
  /\ data = 1
  /\ code = 1
  /\ host = "down"
  /\ Quiet
  /\ retired = FALSE
  /\ spent = [calls |-> 0, changes |-> 0, starts |-> 0,
              creations |-> [t \in Tasks |-> 0]]

Spend(what, bound) ==
  /\ spent[what] < bound
  /\ spent' = [spent EXCEPT ![what] = @ + 1]

SetState(state) == lifecycle' = [lifecycle EXCEPT !.state = state]

\* begin_draining(): what was admitted before is of another generation.
Draining == [state |-> "Draining", generation |-> lifecycle.generation + 1]

----------------------------------------------------------------------------
(* The gate: a mutex for each partition, then a semaphore; both are fair *)

\* acquire() takes one permit, acquire_exclusive() all of them.
Need(p) == IF p \in Changers THEN Permits ELSE 1

Granted(p) ==
  /\ queue # <<>>
  /\ Head(queue) = p
  /\ free >= Need(p)

\* Seeded faults, here and below: what the definition that follows would be
\* if the code were wrong.
Without_Nobody(q, ps) == q

\* A future that is dropped while it waits leaves the queue.
Without(q, ps) == SelectSeq(q, LAMBDA p : p \notin ps)

LaneOf(p) == IF p \in Callers THEN Partition[p] ELSE Partition[p[1]]

\* acquire() up to its first await that does not return at once.
Acquire(p) ==
  /\ lane' = [lane EXCEPT ![LaneOf(p)] = Append(@, p)]
  /\ queue' = IF lane[LaneOf(p)] = <<>> THEN Append(queue, p) ELSE queue

\* ps give up the locks they hold and wait for.
Unlock(ps) == lane' = [k \in Lanes |-> Without(lane[k], ps)]

Release(p) == free' = free + Need(p)

\* Whoever is next for the lock of its partition gets it.
Lock(p) ==
  LET l == lane[LaneOf(p)] IN
  /\ l # <<>>
  /\ Head(l) = p
  /\ IF p \in Callers THEN caller[p].pc = "queued" ELSE worker[p] = "queued"
  /\ \A i \in 1..Len(queue) : queue[i] # p
  /\ queue' = Append(queue, p)
  /\ UNCHANGED <<persistent, host, recovery, lifecycle, registered, lane, free,
                 caller, changer, scheduler, history>>

----------------------------------------------------------------------------
(* The workers of the schedules *)

FreeSlots(t) == {n \in Slots : worker[<<t, n>>] = "none"}

FreeSlot(t) == CHOOSE n \in FreeSlots(t) : TRUE

\* launch_schedule() for each of ts that has no handle.
Launch(ts) ==
  LET new == {t \in ts : handle[t] = 0} IN
  /\ \A t \in new : FreeSlots(t) # {}
  /\ worker' = [w \in Workers |-> IF w[1] \in new /\ w[2] = FreeSlot(w[1])
                                    THEN "sleeping" ELSE worker[w]]
  /\ handle' = [t \in Tasks |-> IF t \in new THEN FreeSlot(t) ELSE handle[t]]

Hit(ts) == {w \in Workers : w[1] \in ts /\ w[2] = handle[w[1]]}

\* The handles of ts are removed, and their workers aborted.
Abort(ts) ==
  /\ Unlock({w \in Hit(ts) : worker[w] = "queued"})
  /\ handle' = [t \in Tasks |-> IF t \in ts THEN 0 ELSE handle[t]]
  /\ worker' = [w \in Workers |->
                  IF w \in Hit(ts) /\ worker[w] \in {"sleeping", "queued"}
                    THEN "none" ELSE worker[w]]
  /\ aborted' = aborted \cup {w \in Hit(ts) : worker[w] = "firing"}
  /\ overtaken' = overtaken \cup
       {w[1] : w \in {v \in Hit(ts) : worker[v] \in {"finish", "remove"}}}
  /\ stranded' = stranded \ ts

Requeued == [t \in Tasks |-> IF rows[t] = "firing" THEN "pending" ELSE rows[t]]

\* recover_plugin_schedules()
RecoverSchedules ==
  /\ rows' = Requeued
  /\ Launch({t \in Tasks : rows[t] # "absent"})
  /\ UNCHANGED aborted

\* The timer of the worker has run out: claim_schedule().
Claim(w) ==
  LET t == w[1] IN
  /\ worker[w] = "sleeping"
  /\ \/ /\ rows[t] = "pending"
        /\ rows' = [rows EXCEPT ![t] = "firing"]
        /\ Acquire(w)
        /\ worker' = [worker EXCEPT ![w] = "queued"]
     \/ /\ rows[t] # "pending"
        /\ worker' = [worker EXCEPT ![w] = "remove"]
        /\ UNCHANGED <<rows, lane, queue>>
  /\ UNCHANGED <<delivered, circuit, data, host, recovery, lifecycle,
                 registered, free, caller, changer, aborted, handle, history>>

\* fire_schedule() up to the invocation.  The event of a task has the same
\* name each time: it is delivered once.
Fire(w) ==
  LET t      == w[1]
      ready  == lifecycle.state = "Ready"
      begins == ready /\ ~circuit /\ delivered[t] \in {"absent", "pending"}
  IN
  /\ worker[w] = "queued"
  /\ Granted(w)
  /\ queue' = Tail(queue)
  /\ IF begins
       THEN /\ free' = free - 1
            /\ delivered' = [delivered EXCEPT ![t] = "running"]
            /\ worker' = [worker EXCEPT ![w] = "firing"]
            /\ UNCHANGED lane
       ELSE /\ worker' = [worker EXCEPT ![w] = "finish"]
            /\ Unlock({w})
            /\ UNCHANGED <<free, delivered>>
  /\ IF ready /\ circuit THEN SetState("Disabled") ELSE UNCHANGED lifecycle
  /\ UNCHANGED <<rows, circuit, data, host, recovery, registered, caller,
                 changer, aborted, handle, history>>

\* The attempts of a delivery are over; a dead letter may open the circuit,
\* which disables the instance whatever it was doing.
Outcome(trips) ==
  /\ circuit' = (circuit \/ trips)
  /\ IF trips THEN SetState("Disabled") ELSE UNCHANGED lifecycle

FireEnds(w, status, trips) ==
  /\ worker[w] = "firing"
  /\ trips => status = "dead_letter"
  /\ delivered' = [delivered EXCEPT ![w[1]] = status]
  /\ Outcome(trips)
  /\ Release(w)
  /\ Unlock({w})
  /\ worker' = [worker EXCEPT ![w] = "finish"]
  /\ aborted' = aborted \ {w}
  /\ UNCHANGED <<rows, data, host, recovery, registered, queue, caller,
                 changer, handle, history>>

\* An aborted worker is dropped within the invocation.
FireDropped(w) ==
  /\ worker[w] = "firing"
  /\ w \in aborted
  /\ Release(w)
  /\ Unlock({w})
  /\ worker' = [worker EXCEPT ![w] = "none"]
  /\ aborted' = aborted \ {w}
  /\ UNCHANGED <<persistent, host, recovery, lifecycle, registered, queue,
                 caller, changer, handle, history>>

\* finish_schedule() forgets the task, whether it fired or failed.
FinishRow(w) ==
  /\ worker[w] = "finish"
  /\ rows' = [rows EXCEPT ![w[1]] = IF @ = "firing" THEN "absent" ELSE @]
  /\ worker' = [worker EXCEPT ![w] = "remove"]
  /\ UNCHANGED <<delivered, circuit, data, host, recovery, lifecycle,
                 registered, gate, caller, changer, aborted, handle, history>>

RemoveHandle(w) ==
  /\ worker[w] = "remove"
  /\ worker' = [worker EXCEPT ![w] = "none"]
  /\ handle' = [handle EXCEPT ![w[1]] = 0]
  /\ UNCHANGED <<persistent, host, recovery, lifecycle, registered, gate,
                 caller, changer, aborted, history>>

----------------------------------------------------------------------------
(* The handler calls of the Runtime *)

Upgrading == changer[Upgrade] # "idle"

Idle(c) == caller' = [caller EXCEPT ![c].pc = "idle"]

\* dispatch(): the instance is ready; the call notes the generation and waits
\* for the gate.
Admit(c) ==
  /\ host = "up"
  /\ ~Upgrading
  /\ lifecycle.state = "Ready"
  /\ caller[c].pc = "idle"
  /\ Spend("calls", MaxCalls)
  /\ caller' = [caller EXCEPT ![c] = [pc |-> "queued",
                                      generation |-> lifecycle.generation,
                                      since |-> spent.changes]]
  /\ Acquire(c)
  /\ UNCHANGED <<persistent, host, recovery, lifecycle, registered, free,
                 changer, scheduler, number, switched, retired, overtaken,
                 stranded>>

IsReadyGeneration_StateOnly(generation) == lifecycle.state = "Ready"

IsReadyGeneration(generation) ==
  lifecycle.state = "Ready" /\ lifecycle.generation = generation

\* The call has its permit: it is given up if the lifecycle changed meanwhile
\* or the circuit is open.
StartCall(c) ==
  LET current == IsReadyGeneration(caller[c].generation) IN
  /\ caller[c].pc = "queued"
  /\ Granted(c)
  /\ queue' = Tail(queue)
  /\ IF current /\ ~circuit
       THEN /\ caller' = [caller EXCEPT ![c].pc = "running"]
            /\ free' = free - 1
            /\ UNCHANGED lane
       ELSE Idle(c) /\ Unlock({c}) /\ UNCHANGED free
  /\ IF current /\ circuit THEN SetState("Disabled") ELSE UNCHANGED lifecycle
  /\ UNCHANGED <<persistent, host, recovery, registered, changer, scheduler,
                 history>>

EndCall(c, trips) ==
  /\ caller[c].pc = "running"
  /\ Idle(c)
  /\ Release(c)
  /\ Unlock({c})
  /\ Outcome(trips)
  /\ UNCHANGED <<rows, delivered, data, host, recovery, registered, queue,
                 changer, scheduler, history>>

\* The deliveries of those of cs that run stay unfinished.
Interrupt(cs) ==
  delivered' = [delivered EXCEPT ![Message] =
                  IF \E c \in cs : caller[c].pc = "running" THEN "running" ELSE @]

\* The Runtime drops the call.
DropCall(c) ==
  /\ caller[c].pc # "idle"
  /\ Idle(c)
  /\ queue' = Without(queue, {c})
  /\ Unlock({c})
  /\ IF caller[c].pc = "running" THEN Release(c) ELSE UNCHANGED free
  /\ Interrupt({c})
  /\ UNCHANGED <<rows, circuit, data, host, recovery, lifecycle, registered,
                 changer, scheduler, history>>

Running == {c \in Callers : caller[c].pc = "running"}
             \cup {w \in Workers : worker[w] = "firing"}

\* The recovery invokes the plugin without a permit.
Invoked == Running # {} \/ recovery.at # {}

\* execute_schedule_command(), for a command of any invocation.
CreateSchedule(t) ==
  /\ Invoked
  /\ rows[t] = "absent"
  /\ spent.creations[t] < MaxCreations
  /\ spent' = [spent EXCEPT !.creations[t] = @ + 1]
  /\ rows' = [rows EXCEPT ![t] = "pending"]
  /\ Launch({t})
  /\ UNCHANGED <<delivered, circuit, data, host, recovery, lifecycle,
                 registered, gate, caller, changer, aborted, number, switched,
                 retired, overtaken, stranded>>

CancelSchedule(t) ==
  /\ Invoked
  /\ rows[t] # "absent"
  /\ rows' = [rows EXCEPT ![t] = "absent"]
  /\ Abort({t})
  /\ queue' = Without(queue, Hit({t}))
  /\ UNCHANGED <<delivered, circuit, data, host, recovery, lifecycle,
                 registered, free, caller, changer, number, switched, retired,
                 spent>>

----------------------------------------------------------------------------
(* Changes of the plugin *)

\* update_config(); upgrade() has the host to itself, its workers apart.
BeginChange(u) ==
  /\ host = "up"
  /\ u # Shutdown
  /\ changer[u] = "idle"
  /\ IF u = Upgrade
       THEN /\ \A v \in Changers : changer[v] = "idle"
            /\ \A c \in Callers : caller[c].pc = "idle"
       ELSE ~Upgrading
  /\ Spend("changes", MaxChanges)
  /\ number' = [number EXCEPT ![u] = spent.changes + 1]
  /\ lifecycle' = Draining
  /\ queue' = Append(queue, u)
  /\ changer' = [changer EXCEPT ![u] = "queued"]
  /\ UNCHANGED <<persistent, host, recovery, registered, lane, free, caller,
                 scheduler, switched, retired, overtaken, stranded>>

Goto(u, pc) == changer' = [changer EXCEPT ![u] = pc]

Switch(u) ==
  switched' = IF number[u] > switched THEN number[u] ELSE switched

\* The change has the gate to itself.
Enter(u) ==
  /\ changer[u] = "queued"
  /\ Granted(u)
  /\ free' = free - Need(u)
  /\ IF u = Upgrade
       THEN /\ rows' = Requeued
            /\ Abort(Tasks)
            /\ queue' = Without(Tail(queue), Hit(Tasks))
       ELSE queue' = Tail(queue) /\ UNCHANGED <<rows, lane, scheduler,
                                                overtaken, stranded>>
  /\ Goto(u, IF u \in Updaters THEN "validate" ELSE "shutdown")
  /\ UNCHANGED <<delivered, circuit, data, host, recovery, lifecycle,
                 registered, caller, number, switched, retired, spent>>

\* The last step of a change: the new state, and the permits.
Leave(u, state) ==
  /\ SetState(state)
  /\ Release(u)
  /\ Goto(u, "idle")

Resume_Never(u) == UNCHANGED <<rows, scheduler>>

\* The recovery of the schedules that a paused plugin gets back.
Resume(u) ==
  IF u = Upgrade THEN RecoverSchedules ELSE UNCHANGED <<rows, scheduler>>

\* validate_config_schema() and validate_config() of an update
Validate(u, ok) ==
  /\ changer[u] = "validate"
  /\ IF ok THEN Goto(u, "shutdown") /\ UNCHANGED <<lifecycle, free>>
           ELSE Leave(u, "Ready")
  /\ UNCHANGED <<persistent, host, recovery, registered, lane, queue, caller,
                 scheduler, history>>

\* supervised_shutdown()
ShutDownGuest(u, ok) ==
  /\ changer[u] = "shutdown"
  /\ u # Shutdown
  /\ IF ok
       THEN /\ guest' = [guest EXCEPT !.up = FALSE]
            /\ Goto(u, IF u = Upgrade THEN "migrate" ELSE "init")
            /\ UNCHANGED <<rows, lifecycle, free, scheduler>>
       ELSE /\ Leave(u, "Ready")
            /\ Resume(u)
            /\ UNCHANGED guest
  /\ UNCHANGED <<delivered, circuit, data, host, recovery, code, config, lane,
                 queue, caller, history>>

\* supervised_migration() and the commit of its operations
Migrate(ok) ==
  /\ changer[Upgrade] = "migrate"
  /\ data' = IF ok THEN code + 1 ELSE data
  /\ Goto(Upgrade, IF ok THEN "init" ELSE "rollback")
  /\ UNCHANGED <<rows, delivered, circuit, host, recovery, lifecycle,
                 registered, gate, caller, scheduler, history>>

\* supervised_init() with the new configuration, or of the new code, whose
\* state is replaced by the old one if it fails.
InitNew(u, ok) ==
  LET update == u \in Updaters IN
  /\ changer[u] = "init"
  /\ IF ok
       THEN /\ guest' = [up |-> TRUE, config |-> config + 1]
            /\ IF update
                 THEN /\ config' = config + 1
                      /\ Switch(u)
                      /\ Leave(u, "Ready")
                 ELSE /\ Goto(u, "health")
                      /\ UNCHANGED <<config, switched, lifecycle, free>>
            /\ UNCHANGED data
       ELSE /\ Goto(u, "rollback")
            /\ data' = IF update THEN data ELSE code
            /\ UNCHANGED <<config, guest, switched, lifecycle, free>>
  /\ UNCHANGED <<rows, delivered, circuit, host, recovery, code, lane, queue,
                 caller, scheduler, number, retired, overtaken, stranded, spent>>

\* supervised_health() of the new code, which replaces the old one, with a
\* lifecycle of its own, or is shut down again.
CheckHealth(ok) ==
  /\ changer[Upgrade] = "health"
  /\ IF ok
       THEN /\ code' = code + 1
            /\ config' = config + 1
            /\ lifecycle' = [state |-> "Ready", generation |-> 0]
            /\ Release(Upgrade)
            /\ Goto(Upgrade, "idle")
            /\ Switch(Upgrade)
            /\ RecoverSchedules
            /\ UNCHANGED <<data, guest>>
       ELSE /\ data' = code
            /\ guest' = [guest EXCEPT !.up = FALSE]
            /\ Goto(Upgrade, "rollback")
            /\ UNCHANGED <<rows, code, config, lifecycle, free, scheduler,
                           switched>>
  /\ UNCHANGED <<delivered, circuit, host, recovery, lane, queue, caller,
                 number, retired, overtaken, stranded, spent>>

\* supervised_init() of the old code with the old configuration
InitOld(u, ok) ==
  /\ changer[u] = "rollback"
  /\ Leave(u, IF ok THEN "Ready" ELSE "Disabled")
  /\ IF ok
       THEN /\ guest' = [up |-> TRUE, config |-> config]
            /\ Resume(u)
            /\ UNCHANGED retired
       ELSE /\ retired' = TRUE
            /\ UNCHANGED <<rows, guest, scheduler>>
  /\ UNCHANGED <<delivered, circuit, data, host, recovery, code, config, lane,
                 queue, caller, number, switched, overtaken, stranded, spent>>

\* shutdown(): the schedulers are stopped first.
BeginShutdown ==
  /\ host = "up"
  /\ ~Upgrading
  /\ changer[Shutdown] = "idle"
  /\ rows' = Requeued
  /\ Abort(Tasks)
  /\ IF lifecycle.state \in {"Ready", "Draining"}
       THEN /\ lifecycle' = IF lifecycle.state = "Ready" THEN Draining ELSE lifecycle
            /\ queue' = Append(Without(queue, Hit(Tasks)), Shutdown)
            /\ Goto(Shutdown, "queued")
            /\ UNCHANGED host
       ELSE /\ queue' = Without(queue, Hit(Tasks))
            /\ host' = "stopped"
            /\ UNCHANGED <<lifecycle, changer>>
  /\ UNCHANGED <<delivered, circuit, data, recovery, registered, free, caller,
                 number, switched, retired, spent>>

EndShutdown(ok) ==
  /\ changer[Shutdown] = "shutdown"
  /\ Leave(Shutdown, IF ok THEN "Stopped" ELSE "Disabled")
  /\ guest' = [guest EXCEPT !.up = ~ok]
  /\ host' = "stopped"
  /\ retired' = TRUE
  /\ UNCHANGED <<persistent, recovery, code, config, lane, queue, caller,
                 scheduler, number, switched, overtaken, stranded, spent>>

\* The process ends, in order or not.
Crash ==
  /\ host # "down"
  /\ host' = "down"
  /\ recovery' = NoRecovery
  /\ lifecycle' = [state |-> "Draining", generation |-> 0]
  /\ code' = data
  /\ config' = 0
  /\ guest' = [up |-> FALSE, config |-> 0]
  /\ lane' = [k \in Lanes |-> <<>>]
  /\ free' = Permits
  /\ queue' = <<>>
  /\ Interrupt(Callers)
  /\ caller' = [c \in Callers |-> [pc |-> "idle", generation |-> 0, since |-> 0]]
  /\ changer' = [u \in Changers |-> "idle"]
  /\ worker' = [w \in Workers |-> "none"]
  /\ aborted' = {}
  /\ handle' = [t \in Tasks |-> 0]
  /\ number' = [u \in Changers |-> 0]
  /\ switched' = 0
  /\ overtaken' = {}
  /\ stranded' = {}
  /\ UNCHANGED <<rows, circuit, data, retired, spent>>

\* register() up to the recovery of the interrupted deliveries, which begins
\* with requeue_running_deliveries().
Register ==
  LET requeued == [e \in Events |-> IF delivered[e] = "running" THEN "pending"
                                   ELSE delivered[e]]
  IN
  /\ host = "down"
  /\ Spend("starts", MaxStarts)
  /\ retired' = circuit
  /\ IF circuit
       THEN /\ host' = "up"
            /\ SetState("Disabled")
            /\ UNCHANGED <<delivered, recovery, guest>>
       ELSE /\ host' = "recovering"
            /\ guest' = [guest EXCEPT !.up = TRUE]
            /\ SetState("Ready")
            /\ delivered' = requeued
            /\ recovery' = [NoRecovery EXCEPT !.todo =
                              {e \in Events : requeued[e] = "pending"}]
  /\ UNCHANGED <<rows, circuit, data, code, config, gate, caller, changer,
                 scheduler, number, switched, overtaken, stranded>>

\* recover_pending_deliveries(): one delivery after the other, while the
\* workers of the schedules that they create fire.  What such a worker has
\* begun meanwhile is passed over.
RecoverDelivery(e) ==
  /\ e \in recovery.todo
  /\ recovery.at = {}
  /\ lifecycle.state # "Disabled"
  /\ recovery' = [todo |-> recovery.todo \ {e},
                  at   |-> IF delivered[e] = "pending" THEN {e} ELSE {}]
  /\ delivered' = [delivered EXCEPT ![e] = IF @ = "pending" THEN "running" ELSE @]
  /\ UNCHANGED <<rows, circuit, data, host, lifecycle, registered, gate, caller,
                 changer, scheduler, history>>

DeliveryRecovered(e, status, trips) ==
  /\ e \in recovery.at
  /\ trips => status = "dead_letter"
  /\ delivered' = [delivered EXCEPT ![e] = status]
  /\ Outcome(trips)
  /\ recovery' = [recovery EXCEPT !.at = {}]
  /\ UNCHANGED <<rows, data, host, registered, gate, caller, changer, scheduler,
                 history>>

\* The last of register(): the rows of the schedules, also of those whose
\* workers are firing, become pending.
RecoveryEnds ==
  /\ host = "recovering"
  /\ recovery.at = {}
  /\ recovery.todo = {} \/ lifecycle.state = "Disabled"
  /\ host' = "up"
  /\ recovery' = NoRecovery
  /\ RecoverSchedules
  /\ stranded' = {t \in Tasks : rows[t] = "firing" /\ handle[t] # 0}
  /\ UNCHANGED <<delivered, circuit, data, lifecycle, registered, gate, caller,
                 changer, number, switched, retired, overtaken, spent>>

----------------------------------------------------------------------------
Served(c) ==
  \/ Lock(c)
  \/ StartCall(c)
  \/ \E trips \in BOOLEAN : EndCall(c, trips)

Called(c) == Admit(c) \/ Served(c) \/ DropCall(c)

Change(u) ==
  \/ Enter(u)
  \/ \E ok \in BOOLEAN : \/ Validate(u, ok)
                         \/ ShutDownGuest(u, ok)
                         \/ InitNew(u, ok)
                         \/ InitOld(u, ok)

ChangeCode == \E ok \in BOOLEAN : Migrate(ok) \/ CheckHealth(ok)

\* The calls of the plugin that nothing but their timeout cuts off.
Supervised == ChangeCode \/ \E ok \in BOOLEAN : EndShutdown(ok)

Work(w) ==
  \/ Claim(w)
  \/ Lock(w)
  \/ Fire(w)
  \/ \E status \in {"succeeded", "dead_letter"}, trips \in BOOLEAN :
       FireEnds(w, status, trips)
  \/ FireDropped(w)
  \/ FinishRow(w)
  \/ RemoveHandle(w)

Recover ==
  \E e \in Events :
    \/ RecoverDelivery(e)
    \/ \E status \in {"succeeded", "dead_letter"}, trips \in BOOLEAN :
         DeliveryRecovered(e, status, trips)

Next ==
  \/ \E c \in Callers : Called(c)
  \/ \E t \in Tasks : CreateSchedule(t) \/ CancelSchedule(t)
  \/ \E w \in Workers : Work(w)
  \/ \E u \in Changers : BeginChange(u) \/ Change(u)
  \/ Supervised
  \/ BeginShutdown
  \/ Crash
  \/ Register
  \/ Recover
  \/ RecoveryEnds

Spec == Init /\ [][Next]_vars

\* Timers run out, waiters of the gate are woken, and every call of the plugin
\* returns or is cut off by its timeout.
Fairness ==
  /\ \A c \in Callers : WF_vars(Served(c))
  /\ \A w \in Workers : WF_vars(Work(w))
  /\ \A u \in Changers : WF_vars(Change(u))
  /\ WF_vars(Supervised)
----------------------------------------------------------------------------
(* Properties *)

Phases == {"idle", "queued", "validate", "shutdown", "migrate", "init",
           "health", "rollback"}

\* Every variable has its type, the gate never hands out more permits than it
\* has, and nobody waits twice.
TypeOK ==
  /\ rows \in [Tasks -> {"absent", "pending", "firing"}]
  /\ delivered \in [Events -> {"absent", "running", "pending", "succeeded",
                               "dead_letter"}]
  /\ {circuit, retired} \subseteq BOOLEAN
  /\ {data, code, config, switched} \subseteq Nat
  /\ host \in {"down", "recovering", "up", "stopped"}
  /\ recovery \in [todo : SUBSET Events, at : SUBSET Events]
  /\ lifecycle \in [state : {"Ready", "Draining", "Disabled", "Stopped"},
                    generation : Nat]
  /\ guest \in [up : BOOLEAN, config : Nat]
  /\ free \in 0..Permits
  /\ lane \in [Lanes -> Seq(Callers \cup Workers)]
  /\ queue \in Seq(Callers \cup Changers \cup Workers)
  /\ \A i, j \in 1..Len(queue) : queue[i] = queue[j] => i = j
  /\ caller \in [Callers -> [pc : {"idle", "queued", "running"},
                             generation : Nat, since : Nat]]
  /\ changer \in [Changers -> Phases]
  /\ worker \in [Workers -> {"none", "sleeping", "queued", "firing", "finish",
                             "remove"}]
  /\ aborted \subseteq {w \in Workers : worker[w] = "firing"}
  /\ handle \in [Tasks -> Slots \cup {0}]
  /\ number \in [Changers -> Nat]

\* The plugin is invoked only while no change of it is under way, and then, up
\* to its retirement, it is initialised with the configuration the host shows
\* it, and finds its state in its own format: update_config(), upgrade() and
\* their rollbacks are invisible to an invocation.
RunsInitialised ==
  Invoked =>
    /\ \A u \in Changers : changer[u] \in {"idle", "queued"}
    /\ ~retired => /\ guest = [up |-> TRUE, config |-> config]
                   /\ data = code

\* A call that was admitted before a change of the plugin began, and had to
\* wait for its switch, is not run after it (the test queued_old_generation_is_
\* not_run_after_config_switch of tests/static_plugins.rs), whatever other
\* changes overlap.  A change that had begun before the call was admitted may
\* switch while the call waits: one that ends makes the instance ready although
\* another is queued.
OldGenerationIsNotRun ==
  \A c \in Callers : caller[c].pc = "running" => switched <= caller[c].since

\* A change of the plugin and a call of it exclude each other: no call sees a
\* plugin that is half changed, or one that was changed since it was admitted.
ChangesAreIsolated == RunsInitialised /\ OldGenerationIsNotRun

InService ==
  /\ host = "up"
  /\ changer[Shutdown] = "idle"
  /\ changer[Upgrade] \in {"idle", "queued"}
  /\ ~retired

\* Rows and workers agree, whatever is paused, rolled back, cancelled and
\* restarted.  While the plugin is in service a worker waits for each pending
\* schedule: none is left to a worker that is about to end.  And a schedule
\* fires only while its row says so, in one worker, unless that is being
\* aborted: what was cancelled or taken back does not reach the plugin.  There
\* are two exceptions.  Overtaken tasks: a worker that is aborted after its
\* invocation goes on to the end of launch_schedule(), and takes the row and the
\* handle of the worker that follows it for its own.  Stranded tasks: they were
\* created by a recovered delivery and had been claimed when register() took
\* the schedules back; their rows stay pending, without a worker, until they
\* are cancelled, or the schedules stopped, upgraded or recovered again.
RowsAndWorkersAgree ==
  /\ InService => \A t \in Tasks : rows[t] = "pending" =>
                    \/ \E n \in Slots : worker[<<t, n>>] = "sleeping"
                    \/ t \in stranded
  /\ \A w \in Workers : worker[w] = "firing" =>
       \/ w \in aborted
       \/ w[1] \in overtaken
       \/ /\ rows[w[1]] = IF w[1] \in stranded THEN "pending" ELSE "firing"
          /\ \A n \in Slots \ {w[2]} : worker[<<w[1], n>>] \notin {"queued", "firing"}

\* Every change of the plugin gets through the gate and comes to its end, and so
\* do the workers of a task: nobody waits for a permit for ever.
EveryoneGetsThrough ==
  /\ \A u \in Changers : changer[u] # "idle" ~> changer[u] = "idle"
  /\ \A t \in Tasks : (\E n \in Slots : worker[<<t, n>>] # "none")
                        ~> (\A n \in Slots : worker[<<t, n>>] = "none")

\* "Drains all ready plugin instances, stops scheduled work" (shutdown()): once
\* an instance was drained and stopped, no schedule of it is worked on.
ShutdownStopsSchedules ==
  lifecycle.state = "Stopped" => \A w \in Workers : worker[w] = "none"
=============================================================================
