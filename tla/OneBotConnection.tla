-------------------------- MODULE OneBotConnection --------------------------
(***************************************************************************)
(* The reverse WebSocket of the OneBot 11 adapter (adapter-onebot11):      *)
(* the Actions that plugins execute over the one active connection, the    *)
(* events that come the other way through a bounded local queue, the       *)
(* backpressure between the two, and the end of a connection.              *)
(*                                                                         *)
(* Four parties run concurrently: the callers of execute(), the loop of    *)
(* run_connection, the forwarder task, and the peer.  Events are numbered  *)
(* in the order in which they arrive; an Action is executed once.  The     *)
(* generation of a connection is left out: connections are served one at a *)
(* time, so a guard never meets a later generation.  The Runtime's queue   *)
(* is external (see EventDispatcher): a reservation may take any time, and *)
(* fails once the receiver is gone.                                        *)
(***************************************************************************)
EXTENDS Integers, FiniteSets, Sequences

CONSTANTS
  Actions,           \* the Actions that are executed
  NoAction,          \* nothing is being written
  LocalCapacity,     \* the local queue: MAX_PENDING_EVENTS_PER_CONNECTION - 3
  MaxPendingActions, \* max_pending_actions
  MaxEvents          \* bound on the events the peer sends

ASSUME ConnectionAssumption ==
  /\ IsFiniteSet(Actions)
  /\ NoAction \notin Actions
  /\ LocalCapacity \in Nat \ {0}
  /\ MaxPendingActions \in Nat \ {0}
  /\ MaxEvents \in Nat

VARIABLES
  active_slot,            \* a handshake or a connection holds the slot
  connection,             \* what run and run_connection are doing
  published,              \* ConnectionState::outbound is Some
  event_queue_full,       \* ConnectionState::event_queue_full
  event_producer_waiting, \* ConnectionState::event_producer_waiting
  outbound,               \* the Actions admitted and not yet taken
  pending,                \* the Actions that wait for their response
  writing,                \* the Action that is being written
  expired,                \* the Actions whose deadline has passed
  answer,                 \* what execute() returned for each Action
  written,                \* history: Actions whose transmission was started
  pending_events,         \* the events that found the local queue full
  queued,                 \* the local queue
  forwarder,              \* the state of the forwarder task
  held,                   \* the event the forwarder holds, or NoEvent
  arrived,                \* history: the number of events read
  delivered,              \* history: the events given to the Runtime
  runtime_open            \* the Runtime still receives

flags   == <<event_queue_full, event_producer_waiting>>
actions == <<outbound, pending, writing, expired, answer, written>>
events  == <<pending_events, queued, forwarder, held, arrived, delivered,
             runtime_open>>
vars    == <<active_slot, connection, published, flags, actions, events>>

NoEvent == 0

Init ==
  /\ active_slot = FALSE
  /\ connection = "none"
  /\ published = FALSE
  /\ event_queue_full = FALSE
  /\ event_producer_waiting = FALSE
  /\ outbound = <<>>
  /\ pending = {}
  /\ writing = NoAction
  /\ expired = {}
  /\ answer = [a \in Actions |-> "none"]
  /\ written = {}
  /\ pending_events = <<>>
  /\ queued = <<>>
  /\ forwarder = "none"
  /\ held = NoEvent
  /\ arrived = 0
  /\ delivered = <<>>
  /\ runtime_open = TRUE

Members(seq) == {seq[i] : i \in 1..Len(seq)}

\* The result of these Actions; a caller that is gone hears nothing.
Answer(as, result) ==
  answer' = [a \in Actions |-> IF a \in as /\ answer[a] = "waiting"
                               THEN result ELSE answer[a]]

\* Seeded faults, here and below: what the definition that follows would be
\* if the code were wrong.
FailAll_Refuses ==
  /\ outbound' = <<>>
  /\ pending' = {}
  /\ Answer(Actions, "refused")

\* fail_unsent and fail_pending_unknown: an Action that was not sent is known
\* to have failed, of one that was sent nothing is known.
FailAll ==
  /\ outbound' = <<>>
  /\ pending' = {}
  /\ answer' = [a \in Actions |->
       IF answer[a] # "waiting" THEN answer[a]
       ELSE IF a \in pending THEN "unknown"
       ELSE IF a \in Members(outbound) THEN "refused"
       ELSE answer[a]]

\* ConnectionGuard::unpublish
Unpublish ==
  /\ published' = FALSE
  /\ event_queue_full' = FALSE
  /\ event_producer_waiting' = FALSE

----------------------------------------------------------------------------
(* execute() *)

BackPressured_QueueOnly == event_queue_full
BackPressured == event_queue_full \/ event_producer_waiting

Admissible ==
  published /\ ~BackPressured /\ Len(outbound) < MaxPendingActions

Admit(a) ==
  /\ answer[a] = "none"
  /\ Admissible
  /\ outbound' = Append(outbound, a)
  /\ answer' = [answer EXCEPT ![a] = "waiting"]
  /\ UNCHANGED <<active_slot, connection, published, flags, pending, writing,
                 expired, written, events>>

Refuse(a) ==
  /\ answer[a] = "none"
  /\ ~Admissible
  /\ answer' = [answer EXCEPT ![a] = "refused"]
  /\ UNCHANGED <<active_slot, connection, published, flags, outbound, pending,
                 writing, expired, written, events>>

\* The caller's own timeout, one second after the deadline, or its future is
\* dropped.  The Action stays where it is.
CallerLeaves(a) ==
  /\ answer[a] = "waiting"
  /\ answer' = [answer EXCEPT ![a] = "left"]
  /\ UNCHANGED <<active_slot, connection, published, flags, outbound, pending,
                 writing, expired, written, events>>

Expire(a) ==
  /\ a \in Members(outbound) \cup pending
  /\ a \notin expired
  /\ expired' = expired \cup {a}
  /\ UNCHANGED <<active_slot, connection, published, flags, outbound, pending,
                 writing, answer, written, events>>

----------------------------------------------------------------------------
(* run, accept_connection, serve_connection *)

\* A handshake with the right token takes the slot.
Accept ==
  /\ connection = "none"
  /\ ~active_slot
  /\ active_slot' = TRUE
  /\ connection' = "accepted"
  /\ UNCHANGED <<published, flags, actions, events>>

HandshakeFails ==
  /\ connection = "accepted"
  /\ active_slot' = FALSE
  /\ connection' = "none"
  /\ UNCHANGED <<published, flags, actions, events>>

Serve ==
  /\ connection = "accepted"
  /\ connection' = "serving"
  /\ published' = TRUE
  /\ forwarder' = "idle"
  /\ UNCHANGED <<active_slot, flags, actions, pending_events, queued, held,
                 arrived, delivered, runtime_open>>

----------------------------------------------------------------------------
(* run_connection: one branch of its select at a time *)

Selecting == connection = "serving" /\ writing = NoAction

\* expire_pending
Tick ==
  /\ Selecting
  /\ pending \cap expired # {}
  /\ pending' = pending \ expired
  /\ Answer(pending \cap expired, "unknown")
  /\ UNCHANGED <<active_slot, connection, published, flags, outbound, writing,
                 expired, written, events>>

\* transmit_action: the Action is too old, or too many wait already.
TransmitRefused ==
  /\ Selecting
  /\ outbound # <<>>
  /\ Head(outbound) \in expired \/ Cardinality(pending) >= MaxPendingActions
  /\ outbound' = Tail(outbound)
  /\ Answer({Head(outbound)}, "refused")
  /\ UNCHANGED <<active_slot, connection, published, flags, pending, writing,
                 expired, written, events>>

\* transmit_action: the Action waits for its response before it is written.
Transmit ==
  /\ Selecting
  /\ outbound # <<>>
  /\ Head(outbound) \notin expired
  /\ Cardinality(pending) < MaxPendingActions
  /\ outbound' = Tail(outbound)
  /\ pending' = pending \cup {Head(outbound)}
  /\ written' = written \cup {Head(outbound)}
  /\ writing' = Head(outbound)
  /\ UNCHANGED <<active_slot, connection, published, flags, expired, answer,
                 events>>

Written ==
  /\ writing # NoAction
  /\ writing' = NoAction
  /\ UNCHANGED <<active_slot, connection, published, flags, outbound, pending,
                 expired, answer, written, events>>

\* The write fails or takes until the deadline: the loop ends.
WriteFails ==
  /\ writing # NoAction
  /\ writing' = NoAction
  /\ pending' = pending \ {writing}
  /\ Answer({writing}, "unknown")
  /\ connection' = "broken"
  /\ UNCHANGED <<active_slot, published, flags, outbound, expired, written,
                 events>>

\* handle_text: a response with the echo of a pending Action.
ReadResponse(a) ==
  /\ Selecting
  /\ Len(pending_events) < 2
  /\ a \in pending
  /\ pending' = pending \ {a}
  /\ Answer({a}, "answered")
  /\ UNCHANGED <<active_slot, connection, published, flags, outbound, writing,
                 expired, written, events>>

\* The reader is not polled while two events wait for the local queue.
Readable == Selecting /\ arrived < MaxEvents /\ Len(pending_events) < 2

IsFull(queue) == Len(queue) = LocalCapacity

\* handle_text, enqueue_local_event: the event goes to the local queue.
ReadEvent ==
  /\ Readable
  /\ forwarder # "failed"
  /\ ~IsFull(queued)
  /\ arrived' = arrived + 1
  /\ queued' = Append(queued, arrived')
  /\ event_queue_full' = IsFull(queued')
  /\ UNCHANGED <<active_slot, connection, published, event_producer_waiting,
                 actions, pending_events, forwarder, held, delivered,
                 runtime_open>>

\* The local queue is full: the event waits in the loop.  With the second one
\* the reader stops, and so that no Action waits for a response that cannot be
\* read, all of them are answered.
ReadEventToWait ==
  /\ Readable
  /\ forwarder # "failed"
  /\ IsFull(queued)
  /\ arrived' = arrived + 1
  /\ pending_events' = Append(pending_events, arrived')
  /\ event_queue_full' = TRUE
  /\ event_producer_waiting' = TRUE
  /\ IF Len(pending_events') = 2 THEN FailAll
     ELSE UNCHANGED <<outbound, pending, answer>>
  /\ UNCHANGED <<active_slot, connection, published, writing, expired, written,
                 queued, forwarder, held, delivered, runtime_open>>

MoveFirst ==
  /\ queued' = Append(queued, Head(pending_events))
  /\ pending_events' = Tail(pending_events)

\* A reservation on the local queue is granted.  (While one holds a place the
\* queue looks full to the forwarder too, but then event_producer_waiting is
\* set as well.)
Reserved ==
  /\ Selecting
  /\ pending_events # <<>>
  /\ ~IsFull(queued)
  /\ forwarder # "failed"
  /\ MoveFirst
  /\ event_queue_full' = IsFull(queued')
  /\ event_producer_waiting' = (pending_events' # <<>>)
  /\ UNCHANGED <<active_slot, connection, published, actions, forwarder, held,
                 arrived, delivered, runtime_open>>

\* The peer closes or sends what is no JSON, the socket fails, the forwarder
\* has ended, or the adapter shuts down.
Break ==
  /\ Selecting
  /\ connection' = "broken"
  /\ UNCHANGED <<active_slot, published, flags, actions, events>>

----------------------------------------------------------------------------
(* The end of a connection *)

Retire_KeepsUnsent ==
  /\ connection = "broken"
  /\ connection' = "flushing"
  /\ Unpublish
  /\ pending' = {}
  /\ Answer(pending, "unknown")
  /\ UNCHANGED <<active_slot, outbound, writing, expired, written, events>>

\* No Action is admitted any more, and all are answered.
Retire ==
  /\ connection = "broken"
  /\ connection' = "flushing"
  /\ Unpublish
  /\ FailAll
  /\ UNCHANGED <<active_slot, writing, expired, written, events>>

Flush ==
  /\ connection = "flushing"
  /\ pending_events # <<>>
  /\ ~IsFull(queued)
  /\ forwarder # "failed"
  /\ MoveFirst
  /\ UNCHANGED <<active_slot, connection, published, flags, actions, forwarder,
                 held, arrived, delivered, runtime_open>>

Forwarded == queued = <<>> /\ forwarder = "idle"

\* The forwarder has passed on everything, or has given up.
Drained == (pending_events = <<>> /\ Forwarded) \/ forwarder = "failed"

\* The forwarder is joined and the guard dropped.
CloseConnection ==
  /\ connection = "flushing"
  /\ Drained
  /\ connection' = "none"
  /\ active_slot' = FALSE
  /\ pending_events' = <<>>
  /\ queued' = <<>>
  /\ forwarder' = "none"
  /\ held' = NoEvent
  /\ UNCHANGED <<published, flags, actions, arrived, delivered, runtime_open>>

\* run returns on shutdown, between two connections.
Stop ==
  /\ connection \in {"none", "accepted"}
  /\ connection' = "stopped"
  /\ active_slot' = FALSE
  /\ UNCHANGED <<published, flags, actions, events>>

\* The Runtime drops the adapter's future: the guard unpublishes and aborts
\* the forwarder, the receivers go, and the callers find their channel closed.
Abort ==
  /\ connection # "stopped"
  /\ connection' = "stopped"
  /\ active_slot' = FALSE
  /\ Unpublish
  /\ outbound' = <<>>
  /\ pending' = {}
  /\ writing' = NoAction
  /\ Answer(Actions, "unknown")
  /\ pending_events' = <<>>
  /\ queued' = <<>>
  /\ forwarder' = "none"
  /\ held' = NoEvent
  /\ UNCHANGED <<expired, written, arrived, delivered, runtime_open>>

----------------------------------------------------------------------------
(* forward_events *)

Take ==
  /\ forwarder = "idle"
  /\ queued # <<>>
  /\ held' = Head(queued)
  /\ queued' = Tail(queued)
  /\ forwarder' = "took"
  /\ UNCHANGED <<active_slot, connection, published, flags, actions,
                 pending_events, arrived, delivered, runtime_open>>

\* The flag is computed under the lock, from the capacity of that moment.
Note ==
  /\ forwarder = "took"
  /\ event_queue_full' = IsFull(queued)
  /\ forwarder' = "reserving"
  /\ UNCHANGED <<active_slot, connection, published, event_producer_waiting,
                 actions, pending_events, queued, held, arrived, delivered,
                 runtime_open>>

Deliver ==
  /\ forwarder = "reserving"
  /\ runtime_open
  /\ delivered' = Append(delivered, held)
  /\ held' = NoEvent
  /\ forwarder' = "idle"
  /\ UNCHANGED <<active_slot, connection, published, flags, actions,
                 pending_events, queued, arrived, runtime_open>>

DeliverFails ==
  /\ forwarder = "reserving"
  /\ ~runtime_open
  /\ held' = NoEvent
  /\ forwarder' = "failed"
  /\ UNCHANGED <<active_slot, connection, published, flags, actions,
                 pending_events, queued, arrived, delivered, runtime_open>>

\* The Runtime's receiver is dropped.
RuntimeCloses ==
  /\ runtime_open
  /\ runtime_open' = FALSE
  /\ UNCHANGED <<active_slot, connection, published, flags, actions,
                 pending_events, queued, forwarder, held, arrived, delivered>>

----------------------------------------------------------------------------
Caller(a) == Admit(a) \/ Refuse(a) \/ CallerLeaves(a)

Peer ==
  \/ ReadEvent
  \/ ReadEventToWait
  \/ \E a \in Actions : ReadResponse(a)

Loop ==
  \/ Tick
  \/ TransmitRefused
  \/ Transmit
  \/ Written
  \/ WriteFails
  \/ Reserved
  \/ Retire
  \/ Flush
  \/ CloseConnection

Forwarder == Take \/ Note \/ Deliver \/ DeliverFails

Next ==
  \/ \E a \in Actions : Caller(a) \/ Expire(a)
  \/ Accept
  \/ HandshakeFails
  \/ Serve
  \/ Peer
  \/ Loop
  \/ Forwarder
  \/ Break
  \/ Stop
  \/ Abort
  \/ RuntimeCloses

Spec == Init /\ [][Next]_vars

(* Fairness: time passes, the loop and the forwarder run (a write has a      *)
(* deadline), and a Runtime that is open takes an event at last.             *)
Fairness ==
  /\ \A a \in Actions : WF_vars(Expire(a))
  /\ WF_vars(Tick)
  /\ WF_vars(TransmitRefused \/ Transmit)
  /\ WF_vars(Written \/ WriteFails)
  /\ WF_vars(Reserved)
  /\ WF_vars(Retire)
  /\ WF_vars(Flush)
  /\ WF_vars(CloseConnection)
  /\ WF_vars(Forwarder)
  /\ WF_vars(Accept)

FairSpec == Spec /\ Fairness

----------------------------------------------------------------------------
(* Properties *)

EventNumbers == 1..MaxEvents

\* Every variable keeps its type; an Action that is written is pending.
TypeOK ==
  /\ active_slot \in BOOLEAN
  /\ connection \in {"none", "accepted", "serving", "broken", "flushing",
                     "stopped"}
  /\ published \in BOOLEAN
  /\ event_queue_full \in BOOLEAN
  /\ event_producer_waiting \in BOOLEAN
  /\ outbound \in Seq(Actions)
  /\ pending \subseteq written
  /\ writing \in pending \cup {NoAction}
  /\ expired \subseteq Actions
  /\ answer \in [Actions -> {"none", "waiting", "answered", "refused",
                             "unknown", "left"}]
  /\ written \subseteq Actions
  /\ pending_events \in Seq(EventNumbers)
  /\ queued \in Seq(EventNumbers)
  /\ forwarder \in {"none", "idle", "took", "reserving", "failed"}
  /\ held \in EventNumbers \cup {NoEvent}
  /\ arrived \in Nat
  /\ delivered \in Seq(EventNumbers)
  /\ runtime_open \in BOOLEAN

Holding == IF held = NoEvent THEN 0 ELSE 1

\* Every event that was read is in exactly one place, through backpressure,
\* disconnects and reconnects: none is lost and none is delivered twice, while
\* the adapter and the Runtime live; and at most
\* MAX_PENDING_EVENTS_PER_CONNECTION are held ("the hard connection budget").
EachEventOnce ==
  /\ runtime_open /\ connection # "stopped" =>
       /\ 1..arrived = Members(delivered) \cup Members(queued)
                         \cup Members(pending_events) \cup ({held} \ {NoEvent})
       /\ arrived = Len(delivered) + Len(queued) + Len(pending_events) + Holding
  /\ Len(queued) + Len(pending_events) + Holding <= LocalCapacity + 3

\* An Action reported as failed was never written to the socket, so it can be
\* repeated; everything else that gets no response is reported as unknown.
RefusedWasNotSent ==
  \A a \in Actions : answer[a] = "refused" => a \notin written

\* No Action is queued or waits for a response that nobody will read: neither
\* while the reader is stopped by backpressure, nor once the connection is
\* unpublished, although callers may be about to queue one at that moment.
UnreadIsQuiet ==
  \/ ~published
  \/ connection = "serving" /\ Len(pending_events) = 2
  => outbound = <<>> /\ pending = {}

\* The two flags are what the queues are, except between the forwarder's
\* receive and its update: Actions are refused exactly under backpressure, and
\* not for ever after it, nor on the next connection because of it.
FlagsAreFresh ==
  runtime_open /\ published /\ forwarder # "took" =>
    /\ event_producer_waiting <=> pending_events # <<>>
    /\ event_queue_full <=> IsFull(queued)

\* Nothing that passes through the connection is lost, doubled or reported
\* wrongly: no event on its way to the Runtime, and no Action on its way out.
TrafficIsExact == EachEventOnce /\ RefusedWasNotSent

\* Actions wait only where somebody reads: the flags of backpressure and the
\* queues they stand for go together.
BackpressureIsSound == UnreadIsQuiet /\ FlagsAreFresh

\* The events of a group reach the Runtime in the order in which they came
\* ("same partition must remain ordered").
EventsInOrder ==
  \A i, j \in 1..Len(delivered) : i < j => delivered[i] < delivered[j]

\* What is taken is given back at last: the place of an Action in the queue and
\* among the pending ones, with the media budget it holds (it is written,
\* answered or expires), and the slot of a connection that has ended.
ResourcesAreReleased ==
  /\ \A a \in Actions :
       a \in Members(outbound) \cup pending
         ~> a \notin Members(outbound) \cup pending
  /\ connection = "broken" ~> ~active_slot

\* Every event that was read reaches the Runtime, if that and the adapter live.
EventsReachRuntime ==
  \A e \in EventNumbers :
    arrived >= e
      ~> e \in Members(delivered) \/ ~runtime_open \/ connection = "stopped"

\* The connection makes progress in both directions: neither an event nor what
\* an Action holds is kept for ever.
TrafficMoves == ResourcesAreReleased /\ EventsReachRuntime
=============================================================================
