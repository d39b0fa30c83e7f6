-------------------------- MODULE EventDispatcher --------------------------
(***************************************************************************)
(* How bot-core's Runtime takes events from its adapters and schedules     *)
(* them (runtime.rs, adapter.rs): the bounded channel with its permits,    *)
(* the bounded set of event tasks, the order within a partition, the two   *)
(* semaphores, and the shutdown that drains all of it.                     *)
(*                                                                         *)
(* What a task does with the event's claim is the business of              *)
(* EventLifecycle; here it is a walk through the phases that hold a        *)
(* semaphore permit or none.  The generation that tells one tail of a      *)
(* partition from another is the delivery itself.                          *)
(***************************************************************************)
EXTENDS Integers, FiniteSets, Sequences

CONSTANTS
  Adapters,       \* the adapter instances
  Deliveries,     \* the events they may submit
  AdapterOf,      \* the adapter that submits a delivery
  Partitions,     \* the values of runtime_partition_key
  PartitionOf,    \* the partition of a delivery
  NoDelivery,     \* no tail, no predecessor
  QueueCapacity,  \* queue_capacity
  Concurrency     \* event_concurrency

DispatcherAssumption ==
  /\ IsFiniteSet(Deliveries)
  /\ IsFiniteSet(Adapters)
  /\ AdapterOf \in [Deliveries -> Adapters]
  /\ PartitionOf \in [Deliveries -> Partitions]
  /\ NoDelivery \notin Deliveries
  /\ QueueCapacity \in Nat \ {0}
  /\ Concurrency \in Nat \ {0}

VARIABLES
  adapter,    \* the state of each adapter task
  permits,    \* the adapters that hold an EventPermit
  queue,      \* the envelopes in the bounded channel
  task,       \* the phase of each event task
  previous,   \* the predecessor whose end a task waits for
  tails,      \* the last task of each partition, while the map holds it
  runtime,    \* the phase of the dispatcher and the shutdown
  failed,     \* an error was recorded
  accepted,   \* history: the deliveries accepted, in order
  finished    \* history: the deliveries whose task ran to its end

vars == <<adapter, permits, queue, task, previous, tails, runtime, failed,
          accepted, finished>>

Working == {"admission", "claiming", "permit", "processing", "retrying"}
Phases  == Working \cup {"none", "previous", "done", "dropped", "panicked",
                         "joined"}
Ended   == {"done", "dropped", "panicked", "joined"}

\* JoinSet::len: a task keeps its slot until it is joined.
Slots == {d \in Deliveries : task[d] \notin {"none", "joined"}}

In(phase) == {d \in Deliveries : task[d] = phase}

\* The channel accepts envelopes until the receiver is closed or dropped.
Open == runtime \in {"running", "draining"}

WasAccepted(d) == \E i \in 1..Len(accepted) : accepted[i] = d

Init ==
  /\ adapter = [a \in Adapters |-> "running"]
  /\ permits = {}
  /\ queue = <<>>
  /\ task = [d \in Deliveries |-> "none"]
  /\ previous = [d \in Deliveries |-> NoDelivery]
  /\ tails = [p \in Partitions |-> NoDelivery]
  /\ runtime = "running"
  /\ failed = FALSE
  /\ accepted = <<>>
  /\ finished = {}

----------------------------------------------------------------------------
(* Adapters *)

\* EventSender::reserve waits for room in the channel.
Reserve(a) ==
  /\ adapter[a] = "running"
  /\ Open
  /\ a \notin permits
  /\ Len(queue) + Cardinality(permits) < QueueCapacity
  /\ permits' = permits \cup {a}
  /\ UNCHANGED <<adapter, queue, task, previous, tails, runtime, failed,
                 accepted, finished>>

\* EventPermit::send cannot fail; the channel keeps room for a permit even
\* after it was closed.
Send(a, d) ==
  /\ a \in permits
  /\ AdapterOf[d] = a
  /\ ~WasAccepted(d)
  /\ permits' = permits \ {a}
  /\ queue' = Append(queue, d)
  /\ accepted' = Append(accepted, d)
  /\ UNCHANGED <<adapter, task, previous, tails, runtime, failed, finished>>

\* The adapter gives its permit back unused.
DropPermit(a) ==
  /\ a \in permits
  /\ permits' = permits \ {a}
  /\ UNCHANGED <<adapter, queue, task, previous, tails, runtime, failed,
                 accepted, finished>>

\* Adapter::run returns, with or without an error.
AdapterStops(a) ==
  /\ adapter[a] = "running"
  /\ \E how \in {"stopped", "failed"} : adapter' = [adapter EXCEPT ![a] = how]
  /\ permits' = permits \ {a}
  /\ UNCHANGED <<queue, task, previous, tails, runtime, failed, accepted,
                 finished>>

----------------------------------------------------------------------------
(* spawn_event *)

\* Seeded faults, here and below: what the definition that follows would be
\* if the code were wrong.
RemoveTail_AnyGeneration(d) ==
  tails' = [tails EXCEPT ![PartitionOf[d]] = NoDelivery]

\* The last task of its partition removes its tail from the map.
RemoveTail(d) ==
  tails' = IF tails[PartitionOf[d]] = d
           THEN [tails EXCEPT ![PartitionOf[d]] = NoDelivery]
           ELSE tails

\* The task is chained to the partition's tail and becomes the tail.
Spawn(d) ==
  LET p == PartitionOf[d] IN
  /\ task' = [task EXCEPT ![d] = IF tails[p] = NoDelivery THEN "admission"
                                                          ELSE "previous"]
  /\ previous' = [previous EXCEPT ![d] = tails[p]]
  /\ tails' = [tails EXCEPT ![p] = d]

Move(d, from, to) ==
  /\ task[d] = from
  /\ task' = [task EXCEPT ![d] = to]

Quiet == UNCHANGED <<adapter, permits, queue, previous, runtime, failed,
                     accepted>>

PreviousEnds_MissedSignal(d) ==
  /\ Move(d, "previous", "admission")
  /\ task[previous[d]] = "done"
  /\ Quiet /\ UNCHANGED <<tails, finished>>

\* The oneshot of the predecessor fires or is dropped.
PreviousEnds(d) ==
  /\ Move(d, "previous", "admission")
  /\ task[previous[d]] \in Ended
  /\ Quiet /\ UNCHANGED <<tails, finished>>

\* The task acquires `claim_admissions` for the time of its claim.
AdmitClaim(d) ==
  /\ Cardinality(In("claiming")) < Concurrency
  /\ Move(d, "admission", "claiming")
  /\ Quiet /\ UNCHANGED <<tails, finished>>

\* The claim is granted; the admission is given back first.
ClaimAnswered(d) ==
  /\ Move(d, "claiming", "permit")
  /\ Quiet /\ UNCHANGED <<tails, finished>>

\* The task acquires `active_events`.
StartProcessing(d) ==
  /\ Cardinality(In("processing")) < Concurrency
  /\ Move(d, "permit", "processing")
  /\ Quiet /\ UNCHANGED <<tails, finished>>

\* A claim, a commit, a release or an acknowledgement that could not be
\* finished is retried without any permit, but with the tail and the slot.
\* A duplicate is acknowledged that way from the start.
Retry(d) ==
  /\ Move(d, "claiming", "retrying") \/ Move(d, "processing", "retrying")
  /\ Quiet /\ UNCHANGED <<tails, finished>>

\* The task is over: it signals its successor and removes its tail.
Finish(d) ==
  /\ \E from \in {"claiming", "processing", "retrying"} : Move(d, from, "done")
  /\ finished' = finished \cup {d}
  /\ RemoveTail(d)
  /\ Quiet

\* A handler panics.  The tail stays in the map; the oneshot is dropped.
Panic(d) ==
  /\ Move(d, "processing", "panicked")
  /\ Quiet /\ UNCHANGED <<tails, finished>>

\* An aborted task is dropped at the await it has reached.
Abort(d) ==
  /\ runtime = "aborting"
  /\ task[d] \in Working \cup {"previous"}
  /\ Move(d, task[d], "dropped")
  /\ Quiet /\ UNCHANGED <<tails, finished>>

----------------------------------------------------------------------------
(* EventDispatcher::run, prepare_shutdown, drain_adapters *)

Receiving == runtime \in {"running", "draining", "flushing"}

\* An envelope is received only while a task slot is free.
Receive ==
  /\ Receiving
  /\ queue # <<>>
  /\ Cardinality(Slots) < QueueCapacity
  /\ Spawn(Head(queue))
  /\ queue' = Tail(queue)
  /\ UNCHANGED <<adapter, permits, runtime, failed, accepted, finished>>

\* A task that ended well or was aborted is joined and gives its slot back.
\* While the closed channel is flushed, only if a slot is needed.
Join(d) ==
  /\ \/ task[d] \in {"done", "dropped"}
     \/ task[d] = "panicked" /\ runtime = "aborting"
  /\ runtime = "flushing" => queue # <<>> /\ Cardinality(Slots) = QueueCapacity
  /\ task' = [task EXCEPT ![d] = "joined"]
  /\ Quiet /\ UNCHANGED <<tails, finished>>

\* The dispatcher returns or the shutdown gives up: the receiver is dropped
\* with what it holds, and the event tasks and the adapters are aborted.
AbortAll ==
  /\ runtime' = "aborting"
  /\ failed' = TRUE
  /\ queue' = <<>>
  /\ UNCHANGED <<task, previous, tails, accepted, finished>>

\* A permit goes with the adapter that holds it.
AbortAdapters ==
  /\ adapter' = [a \in Adapters |-> IF adapter[a] = "running" THEN "stopped"
                                                              ELSE adapter[a]]
  /\ permits' = {}

\* An event task panicked, an adapter failed, or every adapter is gone.
RunFails ==
  /\ runtime = "running"
  /\ \/ In("panicked") # {}
     \/ \E a \in Adapters : adapter[a] = "failed"
     \/ queue = <<>> /\ \A a \in Adapters : adapter[a] = "stopped"
  /\ AbortAll
  /\ AbortAdapters

Shutdown ==
  /\ runtime = "running"
  /\ runtime' = "draining"
  /\ UNCHANGED <<adapter, permits, queue, task, previous, tails, failed,
                 accepted, finished>>

\* Every sender is gone before the dispatcher sees the shutdown: nothing is
\* left to drain.
ReceiverEnds ==
  /\ runtime = "running"
  /\ queue = <<>>
  /\ \A a \in Adapters : adapter[a] # "running"
  /\ runtime' = "joining"
  /\ UNCHANGED <<adapter, permits, queue, task, previous, tails, failed,
                 accepted, finished>>

CloseReceiver == runtime' = "flushing"

\* Every adapter has returned: the receiver is closed.
AdaptersDrained ==
  /\ runtime = "draining"
  /\ \A a \in Adapters : adapter[a] = "stopped"
  /\ CloseReceiver
  /\ UNCHANGED <<adapter, permits, queue, task, previous, tails, failed,
                 accepted, finished>>

\* The drain ends with an error: an adapter failed or an event task panicked
\* (the adapters still run), or half of the deadline is over (they are
\* aborted).  The envelopes in the channel are still spawned.
DrainFails ==
  /\ runtime = "draining"
  /\ \/ /\ \/ In("panicked") # {}
           \/ \E a \in Adapters : adapter[a] = "failed"
        /\ UNCHANGED <<adapter, permits>>
     \/ AbortAdapters
  /\ CloseReceiver
  /\ failed' = TRUE
  /\ UNCHANGED <<queue, task, previous, tails, accepted, finished>>

\* The closed channel is empty and no permit can fill it: the dispatcher
\* returns, and the event tasks are joined or, after an error, aborted.
Flushed ==
  /\ runtime = "flushing"
  /\ queue = <<>>
  /\ permits = {}
  /\ IF failed THEN AbortAll /\ AbortAdapters
     ELSE /\ runtime' = "joining"
          /\ UNCHANGED <<adapter, permits, queue, task, previous, tails,
                         failed, accepted, finished>>

\* A task panicked, or the deadline is over with every slot taken.
FlushFails ==
  /\ runtime = "flushing"
  /\ queue # <<>>
  /\ Cardinality(Slots) = QueueCapacity
  /\ AbortAll
  /\ AbortAdapters

\* finish_event_tasks: a task panicked, or the deadline is over.
JoinFails ==
  /\ runtime = "joining"
  /\ AbortAll
  /\ AbortAdapters

\* The end of RuntimeShutdown::finish; an adapter that failed unnoticed is
\* reported here.
Stop ==
  /\ runtime \in {"joining", "aborting"}
  /\ Slots = {}
  /\ runtime' = "stopped"
  /\ failed' = (failed \/ \E a \in Adapters : adapter[a] = "failed")
  /\ UNCHANGED <<adapter, permits, queue, task, previous, tails, accepted,
                 finished>>

----------------------------------------------------------------------------
Adapter(a) ==
  \/ Reserve(a)
  \/ \E d \in Deliveries : Send(a, d)
  \/ DropPermit(a)
  \/ AdapterStops(a)

Task(d) ==
  \/ PreviousEnds(d)
  \/ AdmitClaim(d)
  \/ ClaimAnswered(d)
  \/ StartProcessing(d)
  \/ Retry(d)
  \/ Finish(d)
  \/ Panic(d)
  \/ Abort(d)

Dispatcher ==
  \/ Receive
  \/ \E d \in Deliveries : Join(d)
  \/ RunFails
  \/ Shutdown
  \/ ReceiverEnds
  \/ AdaptersDrained
  \/ DrainFails
  \/ Flushed
  \/ FlushFails
  \/ JoinFails
  \/ Stop

Next ==
  \/ \E a \in Adapters : Adapter(a)
  \/ \E d \in Deliveries : Task(d)
  \/ Dispatcher

Spec == Init /\ [][Next]_vars

----------------------------------------------------------------------------
(* Properties *)

\* Every variable keeps its type, and only running adapters hold permits.
TypeOK ==
  /\ adapter \in [Adapters -> {"running", "stopped", "failed"}]
  /\ permits \subseteq {a \in Adapters : adapter[a] = "running"}
  /\ queue \in Seq(Deliveries)
  /\ task \in [Deliveries -> Phases]
  /\ previous \in [Deliveries -> Deliveries \cup {NoDelivery}]
  /\ tails \in [Partitions -> Deliveries \cup {NoDelivery}]
  /\ runtime \in {"running", "draining", "flushing", "joining", "aborting",
                  "stopped"}
  /\ failed \in BOOLEAN
  /\ accepted \in Seq(Deliveries)
  /\ finished \subseteq Deliveries

\* "Normal dispatch retains at most queue_capacity task-owned envelopes plus
\* the bounded channel's queue_capacity envelopes", through the drain and the
\* flush as well; and each semaphore bounds its phase.
Bounded ==
  /\ Cardinality(Slots) <= QueueCapacity
  /\ Len(queue) + Cardinality(permits) <= QueueCapacity
  /\ Cardinality(In("claiming")) <= Concurrency
  /\ Cardinality(In("processing")) <= Concurrency

Before(c, d) == \E i, j \in 1..Len(accepted) :
                  i < j /\ accepted[i] = c /\ accepted[j] = d

\* The events of a partition are processed one at a time and in the order in
\* which they were accepted: while one claims, is handled or retries, all
\* before it are over.  Only the abort of all tasks, which may drop the
\* middle of a chain first, breaks that.
PartitionOrder ==
  runtime \notin {"aborting", "stopped"} =>
    \A c, d \in Deliveries :
      /\ PartitionOf[c] = PartitionOf[d]
      /\ Before(c, d)
      /\ task[d] \in Working \cup {"done"}
      => task[c] \in Ended

\* The tail of a partition is its last spawned task for as long as that one
\* lives, so no chain is cut, and no tail outlives a task that ran to its
\* end, so the map does not grow with the partitions ever seen.  (During an
\* abort nothing more is chained.)
TailExact ==
  \A p \in Partitions :
    LET spawned == {d \in Deliveries : PartitionOf[d] = p /\ task[d] # "none"} IN
    /\ tails[p] # NoDelivery =>
         /\ tails[p] \in spawned \ finished
         /\ \A d \in spawned : ~Before(tails[p], d)
    /\ tails[p] = NoDelivery /\ runtime \notin {"aborting", "stopped"} =>
         \A d \in spawned : task[d] \in Ended

\* A runtime that drained without an error has processed every event its
\* adapters were told was accepted.
DrainComplete ==
  runtime = "stopped" /\ ~failed =>
    \A i \in 1..Len(accepted) : accepted[i] \in finished

\* Every accepted event must be processed or an error reported at last (MCLiveness).
IsSettled(d) == d \in finished \/ failed
=============================================================================
